---- MODULE Spec2Model ----
(***************************************************************************)
(* DayTracker collectors (horu2day/daytracker-vault).                      *)
(*                                                                         *)
(* The parts of the program are modelled each with its own next-state     *)
(* relation over the one set of variables:                                 *)
(*   SpecProj    - get_or_create_project called by concurrent collectors   *)
(*                 against the projects table (SQLite, UNIQUE name);       *)
(*   SpecBrowser - browser history sync (sync_since_last / sync_to_db)     *)
(*                 with its persisted cursor;                              *)
(*   SpecWatcher - the filesystem handler: exclusion, debounce cache,      *)
(*                 project resolution and the two event rows;              *)
(*   SpecDaemon  - DayTrackerDaemon: collector threads, stop flag and      *)
(*                 _shutdown_all;                                          *)
(*   SpecCollectors - every collector's write path, dry-run or not: the    *)
(*                 window poller, the commit collector, the two            *)
(*                 coding-activity collectors and the hook installer,      *)
(*                 next to the filesystem handler and the browser sync;    *)
(*   SpecMapper  - map_path_to_project applied to paths and root lists;    *)
(*   SpecExclude - _should_exclude applied to paths and pattern lists;     *)
(*   SpecEpoch   - the browser's epoch conversions applied to timestamps;  *)
(*   SpecDebounce - several threads inside _is_debounced for one path;     *)
(*   SpecCache   - _is_debounced called for several paths over a minute;   *)
(*   SpecPoller  - a sequence of window polls over changing windows;       *)
(*   SpecPollLoop - the poll loop of start_polling and its stop flag;      *)
(*   SpecVscode  - the cycle of the daemon's coding-activity thread;       *)
(*   SpecRace    - two browser sync runs side by side on one Store;        *)
(*   SpecCommit  - the commit collector run again on an unchanged HEAD;    *)
(*   SpecPrune   - _is_debounced beside a filter that is never pruned.     *)
(***************************************************************************)
EXTENDS Integers, Sequences, FiniteSets, Bags, TLC

VARIABLES
    \* ---- Store: projects table and its callers (project_mapper.py) ----
    projects,     \* committed rows of `projects`, in id order: id = index
    pc,           \* per caller: position inside the collector's handler
    arg,          \* per caller: [name, path] passed to get_or_create_project
    ret,          \* per caller: outcome of the current get_or_create_project
    writer,       \* caller holding SQLite's write lock (0 = nobody)
    plog,         \* attributions of the callers' activity rows: [name, project_id, outcome]
    ncalls,       \* number of get_or_create_project calls started
    existed,      \* per caller: the row for its name was committed at call time
    done,         \* completed calls: [name, id, file, inserted, existed]
    \* ---- browser history collector (browser_history.py) ----
    history,          \* the browser's History file: visits [ts, url]
    last_sync_unix,   \* data/browser_sync_state.json: the cursor (0 = no state)
    blog,             \* activity_log rows of kind 'browser': [ts, url]
    wall,             \* time.time(), in ticks
    run,              \* what the last sync_since_last run did (history variable)
    \* ---- filesystem collector (file_watcher.py) ----
    clock,            \* time.monotonic(), in seconds
    debounce_cache,   \* _debounce_cache: path -> time of its last accepted call
    dry_run,          \* DayTrackerFileHandler.dry_run
    activity_log,     \* activity_log rows of kind 'file_change', in id order
    file_events,      \* file_events rows, in id order
    nnotes,           \* number of notifications handled
    lastSeen,         \* per path: clock of its last such notification (history variable)
    lastAccept,       \* per path: clock of its last accepted call (history variable)
    notes,            \* the last two notifications that reached _is_debounced
                      \* (history variable)
    \* ---- DayTrackerDaemon (watcher_daemon.py) ----
    dpc,              \* position of the main thread in main() / start() / _shutdown_all
    dk,               \* index of the collector being started, or of the thread being joined
    stop_event,       \* self._stop_event
    observer,         \* self._file_observer: "none", "running" or "stopped"
    th,               \* per collector thread: "none", "loop" (at the loop test:
                      \* just started, or in stop.wait), "cycle", "stuck", "exited"
    reports,          \* per collector: number of "... stopped." lines printed
    warned,           \* collectors with a "did not stop cleanly" / "Error stopping" line, and start warnings
    fails,            \* per thread: consecutive failed cycles (history variable)
    write_failed,     \* the observer's last write failed (history variable)
    \* ---- window, commit and coding-activity collectors, hook installer ----
    last_window,      \* window_poller._last_window["key"]: <<app, title>>
    alog,             \* activity_log rows of kinds 'window_focus', 'git_commit',
                      \* 'vscode_activity' and 'vscode_coding', in id order
    hooks,            \* per repository: content of .git/hooks/post-commit
    exit_code,        \* exit code of the last git_commit.py process
    \* ---- pure functions ----
    call,             \* the last call of a pure function: [fn, args, result]
    \* ---- threads inside _is_debounced (file_watcher.py) ----
    lock,             \* _debounce_lock: the thread holding it (0 = free)
    dt,               \* per thread: [pc, now, last, result] of its call
    \* ---- optional libraries ----
    pywinctl,         \* window_poller.PYWINCTL_AVAILABLE: "not imported" (the
                      \* module is not loaded yet), "available", "unavailable"
    \* ---- browser sync runs side by side (browser_history.py) ----
    sync,             \* per run of sync_to_db: [pc, k, staged]: position, index
                      \* of the entry at hand, rows inserted and not committed
    sync_writer       \* the run holding SQLite's write lock (0 = none)

projRest == <<pc, arg, ret, writer, plog, ncalls, existed, done>>
projVars == <<projects, projRest>>
brVars == <<history, last_sync_unix, blog, wall, run>>
fwVars == <<clock, debounce_cache, dry_run, activity_log, file_events, nnotes,
            lastSeen, lastAccept, notes>>

dmVars == <<dpc, dk, stop_event, observer, th, reports, warned, fails, write_failed>>

coVars == <<last_window, alog, hooks, exit_code>>

dbVars == <<lock, dt>>

envVars == <<pywinctl>>

raceVars == <<sync, sync_writer>>

vars == <<projVars, brVars, fwVars, dmVars, coVars, call, dbVars, envVars, raceVars>>

\* What the actions of one part leave unchanged of the other parts.
notProj == <<brVars, fwVars, dmVars, coVars, call, dbVars, envVars, raceVars>>
notBrowser == <<projVars, fwVars, dmVars, coVars, call, dbVars, envVars, raceVars>>
notWatcher == <<projRest, brVars, dmVars, coVars, call, dbVars, envVars, raceVars>>
notDaemon == <<projVars, brVars, fwVars, coVars, call, dbVars, envVars, raceVars>>
notCollectors == <<projRest, brVars, clock, debounce_cache, dry_run, activity_log,
                   nnotes, lastSeen, lastAccept, notes, dmVars, call, dbVars, envVars, raceVars>>
notCall == <<projVars, brVars, fwVars, dmVars, coVars, dbVars, envVars, raceVars>>
notCache == <<projVars, brVars, dry_run, activity_log, file_events, lastSeen,
              lastAccept, notes, dmVars, coVars, dbVars, envVars, raceVars>>
notDebounce == <<projVars, brVars, dry_run, activity_log, file_events, nnotes,
                 lastSeen, lastAccept, notes, dmVars, coVars, call, envVars, raceVars>>
notRace == <<projVars, history, last_sync_unix, wall, run, fwVars, dmVars, coVars,
             call, dbVars, envVars>>

-----------------------------------------------------------------------------
\* Bounds of the model.
NumCallers == 2
MaxCalls == 3

MaxTicks == 3
MaxVisits == 2

MaxStartClock == 2
MaxNotes == 3

MaxFails == 2

\* Python's None for an Optional[int] project id / lastrowid.
NULL == 0

Callers == 1..NumCallers

Max2(a, b) == IF a >= b THEN a ELSE b

-----------------------------------------------------------------------------
\* ---- paths and project resolution (project_mapper.py) ----
\* A path is the sequence of its components (separators already normalised
\* by _normalise: "\\" -> "/").

\* config.watch_roots
WATCH_ROOTS == << <<"root">>, <<"Work">> >>

\* Files a collector may see.
FileA == <<"root", "myproj", "src", "a.py">>
FileB == <<"root", "myproj", "b.py">>
FileC == <<"root", "other", "c.py">>
FileW == <<"work", "MyProj", "d.py">>
FileX == <<"tmp", "x.txt">>

\* str.lower() on the components that occur.
Lower(s) ==
    CASE s = "Work" -> "work"
      [] s = "MyProj" -> "myproj"
      [] OTHER -> s

LowerPath(p) == [i \in 1..Len(p) |-> Lower(p[i])]

\* PurePath.relative_to succeeds iff root is a component-wise prefix.
IsRelativeTo(f, r) ==
    /\ Len(r) <= Len(f)
    /\ \A i \in 1..Len(r) : f[i] = r[i]

\* The parts of f.relative_to(r).
RelParts(f, r) == SubSeq(f, Len(r) + 1, Len(f))

\* The loop of map_path_to_project over watch_roots starting at root k:
\* exact relative_to, else the lower-cased retry, else continue; a match
\* with no parts (the root itself) falls through to the next root.
RECURSIVE MapFrom(_, _, _)
MapFrom(f, roots, k) ==
    IF k > Len(roots) THEN ""
    ELSE LET r == roots[k]
             rel == IF IsRelativeTo(f, r) THEN RelParts(f, r)
                    ELSE IF IsRelativeTo(LowerPath(f), LowerPath(r))
                         THEN RelParts(LowerPath(f), LowerPath(r))
                         ELSE <<>>
             matched == IsRelativeTo(f, r) \/ IsRelativeTo(LowerPath(f), LowerPath(r))
         IN IF matched /\ Len(rel) > 0 THEN rel[1] ELSE MapFrom(f, roots, k + 1)

\* A resolver that files every path under no root into a catch-all project.
map_path_to_project_or_default(f, roots) ==
    IF MapFrom(f, roots, 1) = "" THEN "unsorted" ELSE MapFrom(f, roots, 1)

\* map_path_to_project(file_path, watch_roots): project name, "" for None.
map_path_to_project(f, roots) == MapFrom(f, roots, 1)

\* The project root path _handle passes on: root / rel.parts[0] for the
\* first root the path is (exactly) relative to, else "".
RECURSIVE ProjectPathFrom(_, _, _)
ProjectPathFrom(f, roots, k) ==
    IF k > Len(roots) THEN <<>>
    ELSE IF IsRelativeTo(f, roots[k])
         THEN IF Len(RelParts(f, roots[k])) > 0
              THEN Append(roots[k], RelParts(f, roots[k])[1])
              ELSE <<>>   \* rel.parts[0] raises IndexError: mapping failed
         ELSE ProjectPathFrom(f, roots, k + 1)

project_path_of(f, roots) == ProjectPathFrom(f, roots, 1)

-----------------------------------------------------------------------------
\* ---- projects table ----

\* Files of the filesystem collector and window titles of the window
\* collector that resolve to a project.
ProjFiles == {FileA, FileB, FileC}
WindowProjects == {"myproj", "other"}

\* A lookup keyed by the path column instead of the name column.
LookupIdByPath(rows, name) ==
    IF \E i \in 1..Len(rows) : rows[i].path = <<name>>
    THEN CHOOSE i \in 1..Len(rows) : rows[i].path = <<name>>
    ELSE NULL

\* SELECT id FROM projects WHERE name = ?  (fetchone(): id or None)
LookupId(rows, name) ==
    IF \E i \in 1..Len(rows) : rows[i].name = name
    THEN CHOOSE i \in 1..Len(rows) :
            /\ rows[i].name = name
            /\ \A j \in 1..Len(rows) : rows[j].name = name => i <= j
    ELSE NULL

\* Schema without the UNIQUE constraint on projects.name.
NoUniqueConstraint(rows, name) == FALSE

\* name TEXT NOT NULL UNIQUE: an INSERT of an existing name is refused.
UniqueViolation(rows, name) == \E i \in 1..Len(rows) : rows[i].name = name

\* Number of rows of `projects` with the given name.
CountRows(rows, name) == Cardinality({i \in 1..Len(rows) : rows[i].name = name})

NoRet == [kind |-> "none", id |-> NULL]
NoArg == [name |-> "", path |-> <<>>, file |-> <<>>]

ProjInit ==
    /\ projects = <<>>
    /\ pc = [c \in Callers |-> "idle"]
    /\ arg = [c \in Callers |-> NoArg]
    /\ ret = [c \in Callers |-> NoRet]
    /\ writer = 0
    /\ plog = {}
    /\ ncalls = 0
    /\ existed = [c \in Callers |-> FALSE]
    /\ done = {}

\* A collector calls get_or_create_project(name, path, db_path).
Call(c, n, p, f) ==
    /\ pc[c] = "idle"
    /\ ncalls < MaxCalls
    /\ n # ""
    /\ pc' = [pc EXCEPT ![c] = "select"]
    /\ arg' = [arg EXCEPT ![c] = [name |-> n, path |-> p, file |-> f]]
    /\ ret' = [ret EXCEPT ![c] = NoRet]
    /\ existed' = [existed EXCEPT ![c] = \E i \in 1..Len(projects) : projects[i].name = n]
    /\ ncalls' = ncalls + 1
    /\ UNCHANGED <<projects, writer, plog, done, notProj>>

\* DayTrackerFileHandler._handle, "Map to project": the name from
\* map_path_to_project and the project root path.
CallFromFile(c, f) ==
    Call(c, map_path_to_project(f, WATCH_ROOTS), project_path_of(f, WATCH_ROOTS), f)

\* poll_once: the project name parsed from the window title; the path is
\* "" when no watch root holds a folder of that name.
CallFromWindow(c, n) == Call(c, n, <<>>, <<>>)

\* "Try to fetch existing": SELECT; return int(row[0]) when a row is found.
\* The SELECT sees committed rows only.
Select(c) ==
    /\ pc[c] = "select"
    /\ LET id == LookupId(projects, arg[c].name) IN
       IF id # NULL
       THEN /\ ret' = [ret EXCEPT ![c] = [kind |-> "id", id |-> id]]
            /\ pc' = [pc EXCEPT ![c] = "write"]
            /\ done' = done \cup {[name |-> arg[c].name, id |-> id, file |-> arg[c].file,
                                   inserted |-> FALSE, existed |-> existed[c]]}
       ELSE /\ ret' = ret
            /\ pc' = [pc EXCEPT ![c] = "insert"]
            /\ done' = done
    /\ UNCHANGED <<projects, arg, writer, plog, ncalls, existed, notProj>>

\* "Insert new project": the INSERT takes the write lock (waiting while
\* another connection holds it); the UNIQUE constraint is checked against
\* the committed rows; sqlite3.IntegrityError leaves the with-block, which
\* rolls back, and propagates to the caller.
Insert(c) ==
    /\ pc[c] = "insert"
    /\ writer = 0
    /\ IF UniqueViolation(projects, arg[c].name)
       THEN /\ ret' = [ret EXCEPT ![c] = [kind |-> "IntegrityError", id |-> NULL]]
            /\ pc' = [pc EXCEPT ![c] = "write"]
            /\ writer' = writer
       ELSE /\ ret' = [ret EXCEPT ![c] = [kind |-> "pending", id |-> Len(projects) + 1]]
            /\ pc' = [pc EXCEPT ![c] = "commit"]
            /\ writer' = c
    /\ UNCHANGED <<projects, arg, plog, ncalls, existed, done, notProj>>

\* The write lock stays held past sqlite3's busy timeout:
\* sqlite3.OperationalError ("database is locked") propagates to the caller.
InsertBusy(c) ==
    /\ pc[c] = "insert"
    /\ writer # 0
    /\ writer # c
    /\ ret' = [ret EXCEPT ![c] = [kind |-> "OperationalError", id |-> NULL]]
    /\ pc' = [pc EXCEPT ![c] = "write"]
    /\ UNCHANGED <<projects, arg, writer, plog, ncalls, existed, done, notProj>>

\* conn.commit(); return int(cursor.lastrowid)
Commit(c) ==
    /\ pc[c] = "commit"
    /\ writer = c
    /\ projects' = Append(projects, [name |-> arg[c].name, path |-> arg[c].path])
    /\ writer' = 0
    /\ ret' = [ret EXCEPT ![c] = [kind |-> "id", id |-> ret[c].id]]
    /\ pc' = [pc EXCEPT ![c] = "write"]
    /\ done' = done \cup {[name |-> arg[c].name, id |-> ret[c].id, file |-> arg[c].file,
                           inserted |-> TRUE, existed |-> existed[c]]}
    /\ UNCHANGED <<arg, plog, ncalls, existed, notProj>>

\* The project id the collector stores with its event: the returned id, or
\* None when get_or_create_project raised (except Exception: warning only).
EventProjectId(r) == IF r.kind = "id" THEN r.id ELSE NULL

\* The collector writes its activity row with that project id.
WriteEvent(c) ==
    /\ pc[c] = "write"
    /\ plog' = plog \cup {[name |-> arg[c].name, project_id |-> EventProjectId(ret[c]),
                            outcome |-> ret[c].kind]}
    /\ pc' = [pc EXCEPT ![c] = "idle"]
    /\ arg' = [arg EXCEPT ![c] = NoArg]
    /\ ret' = [ret EXCEPT ![c] = NoRet]
    /\ existed' = [existed EXCEPT ![c] = FALSE]
    /\ UNCHANGED <<projects, writer, ncalls, done, notProj>>

NextProj ==
    \/ \E c \in Callers, f \in ProjFiles : CallFromFile(c, f)
    \/ \E c \in Callers, n \in WindowProjects : CallFromWindow(c, n)
    \/ \E c \in Callers : Select(c)
    \/ \E c \in Callers : Insert(c)
    \/ \E c \in Callers : InsertBusy(c)
    \/ \E c \in Callers : Commit(c)
    \/ \E c \in Callers : WriteEvent(c)

-----------------------------------------------------------------------------
\* ---- claims about the projects table ----

\* C1: for any interleaving of concurrent get_or_create_project calls, the
\* projects table never holds more than one row with the same name.
C1_AtMostOneRowPerName ==
    \A i, j \in 1..Len(projects) : projects[i].name = projects[j].name => i = j

\* Two callers raced on a new name: one committed the row, the other's
\* INSERT was refused, and the table holds the name once.
C1_Witness ==
    \E c \in Callers :
        /\ ret[c].kind = "IntegrityError"
        /\ ~existed[c]
        /\ CountRows(projects, arg[c].name) = 1

\* C2: the caller whose INSERT loses against the uniqueness constraint
\* does not fail; its call returns the winner's project id, and its event
\* is attributed to that project.
C2_LoserReturnsWinnerId ==
    /\ \A c \in Callers : ret[c].kind # "IntegrityError"
    /\ \A r \in plog :
          (\E i \in 1..Len(projects) : projects[i].name = r.name)
             => /\ r.project_id # NULL
                /\ projects[r.project_id].name = r.name

\* C9: sequential calls with one name return one id, and only the first
\* inserts: all completed calls for a name (or for a file path) returned
\* the id of the row of that name; a call made when the row already exists
\* reaches no INSERT, does not fail and inserts nothing; at most one
\* completed call per name inserted.
C9_SequentialIdempotent ==
    /\ \A d \in done : d.id \in 1..Len(projects) /\ projects[d.id].name = d.name
    /\ \A d1, d2 \in done :
          (d1.name = d2.name \/ (d1.file # <<>> /\ d1.file = d2.file)) => d1.id = d2.id
    /\ \A d \in done : d.existed => ~d.inserted
    /\ \A d1, d2 \in done : (d1.name = d2.name /\ d1.inserted /\ d2.inserted) => d1 = d2
    /\ \A c \in Callers :
          existed[c] => /\ pc[c] \in {"select", "write"}
                        /\ pc[c] = "write" => (ret[c].kind = "id" /\ ret[c].id # NULL)

\* Three calls for one name have completed one after another: the first
\* inserted, the later ones found the row.
C9_Witness ==
    /\ \E d \in done : d.inserted /\ ~d.existed /\ d.file = FileA
    /\ \E d \in done : ~d.inserted /\ d.existed /\ d.file = FileA
    /\ \E d \in done : ~d.inserted /\ d.existed /\ d.file = <<>> /\ d.name = "myproj"

-----------------------------------------------------------------------------
\* ---- browser history collector (browser_history.py) ----
\* Timestamps are Unix times counted in hours (3600 s); the Chrome-epoch
\* conversion is strictly increasing, so the comparisons the code makes on
\* native timestamps are made here on the Unix ones.  The rows of kind
\* 'browser' are kept as a bag of (timestamp, data) pairs.

\* hours=1 in the call of sync_since_last (and its default).
HOURS == 1

Urls == {"u1", "u2"}

\* time.time() when the daemon starts: later than two lookback windows
\* after the epoch.
StartWall == 3 * HOURS

\* int(x / 3600): truncation toward zero.
TruncDiv(a, b) == IF a >= 0 THEN a \div b ELSE -((-a) \div b)

\* effective_hours = max(1, int((time.time() - cutoff_unix) / 3600) + 1)
effective_hours(now, cutoff) == Max2(1, TruncDiv(now - cutoff, 1) + 1)

\* A reader that returns the visits whether or not the file could be read.
get_chrome_history_unguarded(hist, now, hours, readOk) ==
    {v \in hist : v.ts >= now - hours}

\* get_chrome_history(hours): the visits with visit_time >= now - hours;
\* [] when the History file is missing or cannot be copied or read.
get_chrome_history(hist, now, hours, readOk) ==
    IF readOk THEN {v \in hist : v.ts >= now - hours} ELSE {}

\* A filter that keeps the boundary entry (>= instead of >).
FilterNewerOrEqual(fetched, last) ==
    IF last > 0 THEN {e \in fetched : e.ts >= last} ELSE fetched

\* "Filter to entries newer than last_sync_unix" (only when a cursor exists).
FilterNewer(fetched, last) ==
    IF last > 0 THEN {e \in fetched : e.ts > last} ELSE fetched

\* ORDER BY v.visit_time DESC
RECURSIVE SortDesc(_)
SortDesc(S) ==
    IF S = {} THEN <<>>
    ELSE LET m == CHOOSE v \in S : \A w \in S : v.ts >= w.ts
         IN <<m>> \o SortDesc(S \ {m})

\* newest_ts = max(e["visit_time"].timestamp() for e in entries)
NewestTs(S) == CHOOSE t \in {e.ts : e \in S} : \A e \in S : t >= e.ts

\* A loop that inserts without looking for the row.
NoExistenceCheck(rows, e) == FALSE

\* "Check for duplicate": SELECT id FROM activity_log WHERE
\* event_type = 'browser' AND timestamp = ? AND data = ? LIMIT 1
ExistsRow(rows, e) == BagIn(e, rows)

\* The for-loop of sync_to_db over entries k..n inside one transaction.
RECURSIVE InsertLoop(_, _, _, _, _)
InsertLoop(rows, es, k, n, ins) ==
    IF k > n THEN [rows |-> rows, inserted |-> ins]
    ELSE IF ExistsRow(rows, es[k])
         THEN InsertLoop(rows, es, k + 1, n, ins)
         ELSE InsertLoop(rows (+) SetToBag({es[k]}), es, k + 1, n, ins + 1)

\* sync_to_db(entries, db_path, dry_run): the rows afterwards and the
\* returned count.  f = 0: no error.  f in 1..Len(es): sqlite3.Error while
\* entry f is processed (connect/PRAGMA errors are f = 1).  f = Len(es)+1:
\* conn.commit() raises.  On an error the with-block rolls the transaction
\* back and `inserted`, as counted so far, is returned.
sync_to_db(rows, es, dry, f) ==
    IF Len(es) = 0 THEN [rows |-> rows, count |-> 0]
    ELSE IF dry THEN [rows |-> rows, count |-> Len(es)]
    ELSE IF f = 0
         THEN LET r == InsertLoop(rows, es, 1, Len(es), 0)
              IN [rows |-> r.rows, count |-> r.inserted]
         ELSE LET r == InsertLoop(rows, es, 1, f - 1, 0)
              IN [rows |-> rows, count |-> r.inserted]

\* _save_sync_state(state_path, state): what _load_sync_state reads back
\* afterwards.  "ok": the new state was written.  "unopened": open(path, "w")
\* raised OSError, the file is as it was.  "truncated": open(path, "w")
\* emptied the file and the write (json.dump / close) raised OSError; the
\* empty file fails json.load and is read as {} (no cursor).
SaveOutcomes == {"ok", "unopened", "truncated"}

save_sync_state(old, new, outcome) ==
    CASE outcome = "ok" -> new
      [] outcome = "unopened" -> old
      [] outcome = "truncated" -> 0

\* No run recorded.
NoRun == [valid |-> FALSE, good |-> FALSE, prevGood |-> FALSE, dbFail |-> FALSE,
          c0 |-> 0, cursor |-> "kept", added |-> FALSE, reemitted |-> FALSE,
          allNewerStored |-> TRUE, fetchedStored |-> TRUE,
          atNewest |-> TRUE, atNewestFetched |-> TRUE, atNewestSeen |-> TRUE,
          read |-> TRUE, prevRead |-> TRUE, ret |-> 0]

BrowserInit ==
    /\ history = {}
    /\ last_sync_unix = 0
    /\ blog = EmptyBag
    /\ wall = StartWall
    /\ run = NoRun

\* Time passes.
TickWall ==
    /\ wall < StartWall + MaxTicks
    /\ wall' = wall + 1
    /\ UNCHANGED <<history, last_sync_unix, blog, run, notBrowser>>

\* The browser records a visit (visits.visit_time = now).
AddVisit(u) ==
    /\ Cardinality(history) < MaxVisits
    /\ [ts |-> wall, url |-> u] \notin history
    /\ history' = history \cup {[ts |-> wall, url |-> u]}
    /\ run' = NoRun
    /\ UNCHANGED <<last_sync_unix, blog, wall, notBrowser>>

\* sync_since_last(dry_run, config, hours=1), one cycle of the browser
\* thread.  readOk: the History file could be copied and read; f: where
\* the batch write fails (0 = nowhere); save: how _save_sync_state ends.
SyncSinceLast(dry, readOk, f, save) ==
    LET last == last_sync_unix
        hours_cutoff == wall - HOURS
        cutoff == Max2(last, hours_cutoff)
        eff == effective_hours(wall, cutoff)
        fetched == get_chrome_history(history, wall, eff, readOk)
        entries == FilterNewer(fetched, last)
        es == SortDesc(entries)
        res == sync_to_db(blog, es, dry, f)
        update == entries # {} /\ ~dry /\ res.count > 0
        c1 == IF update THEN save_sync_state(last, NewestTs(entries), save) ELSE last
        newer == {v \in history : v.ts > last}
    IN /\ f \in (IF dry \/ entries = {} THEN {0} ELSE 0..(Len(es) + 1))
       /\ (~update) => save = "ok"
       /\ blog' = res.rows
       /\ last_sync_unix' = c1
       /\ run' = [valid |-> TRUE,
                      \* a non-dry run in which nothing raised an error
                      good |-> ~dry /\ readOk /\ f = 0 /\ save = "ok",
                      \* the run before, with no new visit in between, was good
                      prevGood |-> run.good,
                      dbFail |-> f # 0,
                      c0 |-> last,
                      cursor |-> IF c1 = last THEN "kept"
                                 ELSE IF c1 > last THEN "advanced" ELSE "moved back",
                      added |-> res.rows # blog,
                      reemitted |-> \E e \in entries : last > 0 /\ e.ts = last,
                      allNewerStored |-> \A v \in newer : BagIn(v, res.rows),
                      fetchedStored |-> \A v \in newer :
                           v.ts >= wall - eff => BagIn(v, res.rows),
                      atNewest |-> newer # {} => c1 = NewestTs(newer),
                      atNewestFetched |->
                           (res.rows # blog /\ save = "ok") => c1 = NewestTs(entries),
                      \* the cursor is at the newest entry handed to sync_to_db
                      atNewestSeen |-> entries # {} => c1 = NewestTs(entries),
                      \* the History file was found, copied and read
                      read |-> readOk,
                      \* so it was in the cycle before
                      prevRead |-> run.read,
                      \* the value returned
                      ret |-> IF entries = {} THEN 0 ELSE res.count]
       /\ UNCHANGED <<history, wall, notBrowser>>

\* main(): get_chrome_history(hours) and sync_to_db, without the cursor.
CliMain(dry, readOk) ==
    /\ LET es == SortDesc(get_chrome_history(history, wall, HOURS, readOk))
       IN blog' = sync_to_db(blog, es, dry, 0).rows
    /\ blog' # blog
    /\ run' = NoRun
    /\ UNCHANGED <<history, last_sync_unix, wall, notBrowser>>

NextBrowser ==
    \/ TickWall
    \/ \E u \in Urls : AddVisit(u)
    \/ \E dry, readOk \in BOOLEAN, f \in 0..(MaxVisits + 1), save \in SaveOutcomes :
          SyncSinceLast(dry, readOk, f, save)
    \/ \E dry, readOk \in BOOLEAN : CliMain(dry, readOk)

-----------------------------------------------------------------------------
\* ---- claims about the browser sync ----

\* C3: the cursor changes only in a cycle whose batch insert was fully
\* committed: when the batch write of sync_to_db fails at any point, none
\* of the batch's rows remains in the Store and the cursor keeps its value.
C3_FailedBatchKeepsCursor ==
    run.dbFail => (~run.added /\ run.cursor = "kept")

C23_OneRowPerVisit == \A e \in BagToSet(blog) : CopiesIn(e, blog) = 1

\* A cycle that started without a cursor was handed visits that already
\* had their rows, and added nothing.
C23_Witness ==
    /\ run.valid /\ run.good /\ run.c0 = 0 /\ ~run.added
    /\ BagCardinality(blog) >= 2
    /\ \E v \in history : v.ts >= wall - HOURS /\ BagIn(v, blog)

\* C37: the cursor is a high-water mark: when a sync_since_last cycle has
\* advanced the cursor from C0 to C1, every visit of the history with a
\* timestamp in (C0, C1] has its browser row in the Store, whatever the
\* gap since the run before and whatever the outcome of the writes.
C37_CursorIsHighWaterMark ==
    (run.valid /\ run.cursor = "advanced")
        => \A v \in history :
               (run.c0 < v.ts /\ v.ts <= last_sync_unix) => BagIn(v, blog)

\* C24: after a non-dry-run cycle in which nothing failed and that saw
\* at least one history entry newer than the cursor, the persisted cursor
\* is the largest visit timestamp among the entries seen, also when all of
\* them already had their rows.
C24_CursorAtNewestSeen == run.good => run.atNewestSeen

\* C25: a cycle in which the history file cannot be found, copied or read
\* returns 0, inserts no row and leaves the persisted cursor as it was;
\* the cycle after it runs as any other.
C25_UnreadableHistorySkipsCycle ==
    (run.valid /\ ~run.read) => (run.ret = 0 /\ ~run.added /\ run.cursor = "kept")

\* The cycle after a skipped one read the history, stored a visit and
\* moved the cursor.
C25_Witness ==
    /\ run.valid /\ ~run.prevRead
    /\ run.read /\ run.added /\ run.ret > 0 /\ run.cursor = "advanced"

\* C10: over any sequence of sync_since_last runs (successful, failed,
\* empty or dry-run) the persisted cursor never decreases.
C10_CursorMonotone == run.valid => run.cursor # "moved back"

-----------------------------------------------------------------------------
\* ---- filesystem collector (file_watcher.py) ----
\* time.monotonic() is counted in whole seconds; its reference point is
\* undefined, so its first reading may be anything from 0.

DEBOUNCE_SECONDS == 2

\* cutoff = now - 60.0
PRUNE_SECONDS == 60

\* A file below an excluded directory.
FileN == <<"root", "myproj", "node_modules", "pkg.js">>

\* Files the observer reports.
FwFiles == {FileA, FileX, FileN}

\* config.exclude_patterns
EXCLUDE_PATTERNS == <<"node_modules", "*.tmp">>

\* The kind of notification modelled: on_modified -> _handle(event, "modified").
EventTypes == {"modified"}

\* Seconds between one notification and the next.
ClockSteps == {0, 1, DEBOUNCE_SECONDS, PRUNE_SECONDS + 1}

\* The shell-style match of fnmatch: * matches any run of characters
\* (also "/"), ? any one character, every other character itself; the
\* whole string must be matched.  (No pattern here uses [seq].)
RECURSIVE GlobMatch(_, _)
GlobMatch(str, pat) ==
    IF pat = "" THEN str = ""
    ELSE IF Head(pat) = "*"
         THEN GlobMatch(str, Tail(pat)) \/ (str # "" /\ GlobMatch(Tail(str), pat))
         ELSE IF Head(pat) = "?"
              THEN str # "" /\ GlobMatch(Tail(str), Tail(pat))
              ELSE str # "" /\ Head(str) = Head(pat) /\ GlobMatch(Tail(str), Tail(pat))

\* A match of the pattern anywhere inside the name.
fnmatch_anywhere(name, pat) ==
    \E i \in 1..(Len(name) + 1) : \E j \in (i - 1)..Len(name) :
        GlobMatch(SubSeq(name, i, j), pat)

\* fnmatch.fnmatch(name, pattern): os.path.normcase on both (the identity
\* on POSIX), then the shell-style match.
fnmatch(name, pat) == GlobMatch(name, pat)

\* Path(path).parts of an absolute path: the root "/" and the components.
PathParts(path) == <<"/">> \o path

\* str(Path(path)): "/" and the components joined by "/".
RECURSIVE PathStr(_)
PathStr(path) ==
    IF Len(path) = 0 THEN "/"
    ELSE IF Len(path) = 1 THEN "/" \o path[1]
         ELSE PathStr(SubSeq(path, 1, Len(path) - 1)) \o "/" \o path[Len(path)]

\* Path(path).name: the last component, "" for the root.
PathName(path) == IF Len(path) = 0 THEN "" ELSE path[Len(path)]

\* The loop of _should_exclude over exclude_patterns from pattern k on:
\* True at the first pattern that matches a part, the full path string or
\* the basename.
RECURSIVE ExcludeFrom(_, _, _)
ExcludeFrom(path, patterns, k) ==
    IF k > Len(patterns) THEN FALSE
    ELSE IF \/ \E i \in 1..Len(PathParts(path)) : fnmatch(PathParts(path)[i], patterns[k])
            \/ fnmatch(PathStr(path), patterns[k])
            \/ fnmatch(PathName(path), patterns[k])
         THEN TRUE
         ELSE ExcludeFrom(path, patterns, k + 1)

\* _should_exclude(path, exclude_patterns)
should_exclude(path, patterns) == ExcludeFrom(path, patterns, 1)

\* _should_exclude(path, self.exclude_patterns) for the files the observer
\* reports.
FwExcluded == [f \in FwFiles |-> should_exclude(f, EXCLUDE_PATTERNS)]

\* First readings of the monotonic clock: inside and past the first
\* DEBOUNCE_SECONDS after its reference point.
StartClocks == {0, MaxStartClock}

\* A key that is not in _debounce_cache.
NoEntry == -1

\* _debounce_cache.get(path, 0.0)
cache_get(cache, path) == IF cache[path] = NoEntry THEN 0 ELSE cache[path]

\* A comparison that also suppresses at exactly DEBOUNCE_SECONDS.
DebouncedInclusive(last, now) == now - last <= DEBOUNCE_SECONDS

\* if now - last < DEBOUNCE_SECONDS: return True
Debounced(last, now) == now - last < DEBOUNCE_SECONDS

\* A pruning without horizon: every entry older than the call is removed.
PruneAllOlder(cache, now) ==
    [k \in DOMAIN cache |->
        IF cache[k] # NoEntry /\ cache[k] < now THEN NoEntry ELSE cache[k]]

\* stale = [k for k, v in _debounce_cache.items() if v < cutoff]; del
Prune(cache, now) ==
    [k \in DOMAIN cache |->
        IF cache[k] # NoEntry /\ cache[k] < now - PRUNE_SECONDS THEN NoEntry ELSE cache[k]]

\* A check that also records the time of a suppressed call.
is_debounced_refreshing(cache, path, now) ==
    IF Debounced(cache_get(cache, path), now)
    THEN [result |-> TRUE, cache |-> [cache EXCEPT ![path] = now]]
    ELSE [result |-> FALSE, cache |-> Prune([cache EXCEPT ![path] = now], now)]

\* _is_debounced(path) at time now: the result and the cache afterwards.
is_debounced(cache, path, now) ==
    IF Debounced(cache_get(cache, path), now)
    THEN [result |-> TRUE, cache |-> cache]
    ELSE [result |-> FALSE, cache |-> Prune([cache EXCEPT ![path] = now], now)]

\* get_or_create_project called by the one observer thread: the SELECT,
\* and the INSERT and commit when no row was found.
get_or_create_project(rows, name, path) ==
    IF LookupId(rows, name) # NULL
    THEN [id |-> LookupId(rows, name), rows |-> rows]
    ELSE [id |-> Len(rows) + 1, rows |-> Append(rows, [name |-> name, path |-> path])]

\* Before start_watching: no handler, no clock reading yet.
WatcherInit ==
    /\ clock = NoEntry
    /\ debounce_cache = [f \in FwFiles |-> NoEntry]
    /\ dry_run = FALSE
    /\ activity_log = <<>>
    /\ file_events = <<>>
    /\ nnotes = 0
    /\ lastSeen = [f \in FwFiles |-> NoEntry]
    /\ lastAccept = [f \in FwFiles |-> NoEntry]
    /\ notes = <<>>

\* start_watching(config, dry_run): the handler is created and the
\* observer started; c is the reading of the monotonic clock at that time.
StartWatching(dry, c) ==
    /\ clock = NoEntry
    /\ clock' = c
    /\ dry_run' = dry
    /\ UNCHANGED <<debounce_cache, activity_log, file_events, nnotes, lastSeen,
                   lastAccept, notes, projects, notWatcher>>

\* What sqlite3 does in _insert_event's transaction: both INSERTs and the
\* commit succeed, or the first or the second INSERT raises sqlite3.Error.
DbOutcomes == {"ok", "activity_insert_fails", "file_insert_fails"}

\* The two INSERTs of _insert_event.
ActivityInsert(al, now_iso, file_path, event_type, project_id) ==
    Append(al, [timestamp |-> now_iso, kind |-> "file_change", path |-> file_path,
                event_type |-> event_type, project_id |-> project_id])

FileInsert(al, fe, now_iso, file_path, event_type, project_id) ==
    Append(fe, [activity_id |-> Len(al) + 1, timestamp |-> now_iso, path |-> file_path,
                event_type |-> event_type, project_id |-> project_id])

\* A writer whose statements persist one by one as they are executed.
insert_event_autocommit(al, fe, now_iso, file_path, event_type, project_id, dry, db) ==
    IF dry \/ db = "activity_insert_fails"
    THEN [activity_log |-> al, file_events |-> fe]
    ELSE IF db = "file_insert_fails"
    THEN [activity_log |-> ActivityInsert(al, now_iso, file_path, event_type, project_id),
          file_events |-> fe]
    ELSE [activity_log |-> ActivityInsert(al, now_iso, file_path, event_type, project_id),
          file_events |-> FileInsert(al, fe, now_iso, file_path, event_type, project_id)]

\* A writer that stores only the events of a known project.
insert_event_mapped_only(al, fe, now_iso, file_path, event_type, project_id, dry, db) ==
    IF dry \/ db # "ok" \/ project_id = NULL
    THEN [activity_log |-> al, file_events |-> fe]
    ELSE [activity_log |-> ActivityInsert(al, now_iso, file_path, event_type, project_id),
          file_events |-> FileInsert(al, fe, now_iso, file_path, event_type, project_id)]

\* _insert_event(db_path, file_path, event_type, project_id, dry_run): the
\* tables afterwards.  Both INSERTs run in one `with sqlite3.connect(...)`
\* block, which commits at its end and rolls back when a statement raises;
\* the sqlite3.Error is caught and printed.
insert_event(al, fe, now_iso, file_path, event_type, project_id, dry, db) ==
    IF dry \/ db # "ok"
    THEN [activity_log |-> al, file_events |-> fe]
    ELSE [activity_log |-> ActivityInsert(al, now_iso, file_path, event_type, project_id),
          file_events |-> FileInsert(al, fe, now_iso, file_path, event_type, project_id)]

\* A _handle that applies the debounce filter before the exclusion
\* filter: an excluded path enters the debounce cache.
HandleDebounceFirst(f, d, event_type, isdir, gocOk, db) ==
    LET now == clock + d
        dbOk == db = "ok"
        excluded == FwExcluded[f]
        filtered == isdir \/ excluded
        deb == is_debounced(debounce_cache, f, now)
        accepted == ~filtered /\ ~deb.result
        project_name == map_path_to_project(f, WATCH_ROOTS)
        mapped == accepted /\ project_name # "" /\ ~dry_run
        goc == get_or_create_project(projects, project_name, project_path_of(f, WATCH_ROOTS))
        project_id == IF mapped /\ gocOk THEN goc.id ELSE NULL
        written == accepted /\ ~dry_run /\ dbOk
        stored == insert_event(activity_log, file_events, wall, f, event_type,
                               project_id, dry_run, db)
    IN /\ clock # NoEntry
       /\ nnotes < MaxNotes
       /\ (~mapped) => gocOk
       /\ (~(accepted /\ ~dry_run)) => dbOk
       /\ clock' = now
       /\ nnotes' = nnotes + 1
       /\ debounce_cache' = IF isdir THEN debounce_cache ELSE deb.cache
       /\ projects' = IF mapped /\ gocOk THEN goc.rows ELSE projects
       /\ activity_log' = IF accepted THEN stored.activity_log ELSE activity_log
       /\ file_events' = IF accepted THEN stored.file_events ELSE file_events
       /\ lastSeen' = IF filtered THEN lastSeen ELSE [lastSeen EXCEPT ![f] = now]
       /\ lastAccept' = IF accepted THEN [lastAccept EXCEPT ![f] = now] ELSE lastAccept
       /\ notes' =
             IF filtered THEN notes
             ELSE (IF Len(notes) = 2 THEN Tail(notes) ELSE notes) \o
                << [path |-> f, now |-> now,
                    \* no notification for the file in the window before this one
                    fresh |-> lastSeen[f] = NoEntry
                                 \/ now - lastSeen[f] >= DEBOUNCE_SECONDS,
                    result |-> IF deb.result THEN "suppress" ELSE "accept",
                    prevAccept |-> lastAccept[f],
                    working |-> gocOk /\ dbOk,
                    rows |-> IF written THEN 1 ELSE 0,
                    project_id |-> project_id,
                    created |-> projects' # projects] >>
       /\ UNCHANGED <<dry_run, notWatcher>>

\* on_modified -> _handle(event, event_type), d seconds after
\* the previous notification.  isdir: event.is_directory; gocOk:
\* get_or_create_project returned (else it raised, e.g. sqlite3.Error);
\* db: the outcome of _insert_event's transaction.
Handle(f, d, event_type, isdir, gocOk, db) ==
    LET now == clock + d
        dbOk == db = "ok"
        excluded == FwExcluded[f]
        filtered == isdir \/ excluded
        deb == is_debounced(debounce_cache, f, now)
        accepted == ~filtered /\ ~deb.result
        project_name == map_path_to_project(f, WATCH_ROOTS)
        mapped == accepted /\ project_name # "" /\ ~dry_run
        goc == get_or_create_project(projects, project_name, project_path_of(f, WATCH_ROOTS))
        project_id == IF mapped /\ gocOk THEN goc.id ELSE NULL
        written == accepted /\ ~dry_run /\ dbOk
        stored == insert_event(activity_log, file_events, wall, f, event_type,
                               project_id, dry_run, db)
    IN /\ clock # NoEntry
       /\ nnotes < MaxNotes
       /\ (~mapped) => gocOk
       /\ (~(accepted /\ ~dry_run)) => dbOk
       /\ clock' = now
       /\ nnotes' = nnotes + 1
       /\ debounce_cache' = IF filtered THEN debounce_cache ELSE deb.cache
       /\ projects' = IF mapped /\ gocOk THEN goc.rows ELSE projects
       /\ activity_log' = IF accepted THEN stored.activity_log ELSE activity_log
       /\ file_events' = IF accepted THEN stored.file_events ELSE file_events
       /\ lastSeen' = IF filtered THEN lastSeen ELSE [lastSeen EXCEPT ![f] = now]
       /\ lastAccept' = IF accepted THEN [lastAccept EXCEPT ![f] = now] ELSE lastAccept
       /\ notes' =
             IF filtered THEN notes
             ELSE (IF Len(notes) = 2 THEN Tail(notes) ELSE notes) \o
                << [path |-> f, now |-> now,
                    \* no notification for the file in the window before this one
                    fresh |-> lastSeen[f] = NoEntry
                                 \/ now - lastSeen[f] >= DEBOUNCE_SECONDS,
                    result |-> IF deb.result THEN "suppress" ELSE "accept",
                    prevAccept |-> lastAccept[f],
                    working |-> gocOk /\ dbOk,
                    rows |-> IF written THEN 1 ELSE 0,
                    project_id |-> project_id,
                    created |-> projects' # projects] >>
       /\ UNCHANGED <<dry_run, notWatcher>>

NextWatcher ==
    \/ \E dry \in BOOLEAN, c \in StartClocks : StartWatching(dry, c)
    \/ \E f \in FwFiles, d \in ClockSteps, t \in EventTypes,
       isdir, gocOk \in BOOLEAN, db \in DbOutcomes : Handle(f, d, t, isdir, gocOk, db)

-----------------------------------------------------------------------------
\* ---- claims about the filesystem collector ----

\* C5: if a call of _is_debounced for a path was accepted at time t, a
\* later call for the path at t' returns suppress when t' - t < 2 s, and
\* the first call at t' >= t + 2 s returns accept.
C5_DebounceWindow ==
    \A i \in 1..Len(notes) :
        notes[i].prevAccept # NoEntry
            => (notes[i].result = "suppress"
                    <=> notes[i].now - notes[i].prevAccept < DEBOUNCE_SECONDS)

\* A path was accepted, suppressed inside the window, and accepted again
\* exactly when the window had elapsed.
C5_Witness ==
    /\ Len(notes) = 2
    /\ notes[1].path = notes[2].path
    /\ notes[1].result = "suppress" /\ notes[1].prevAccept # NoEntry
    /\ notes[2].result = "accept"
    /\ notes[2].now - notes[2].prevAccept = DEBOUNCE_SECONDS

\* C6: two notifications for one non-excluded file less than 2 s apart
\* (the first with no notification for the file in the 2 s before it),
\* not in dry-run mode and with a working Store, write exactly one
\* file_events row and one activity_log row between them.
C6_TwoNotificationsOneRow ==
    (/\ Len(notes) = 2
     /\ notes[1].path = notes[2].path
     /\ notes[2].now - notes[1].now < DEBOUNCE_SECONDS
     /\ notes[1].fresh
     /\ ~dry_run
     /\ \A i \in 1..2 : notes[i].working)
        => notes[1].rows + notes[2].rows = 1

\* The path is relative to none of the watch roots.
UnderNoRoot(f, roots) == \A k \in 1..Len(roots) : ~IsRelativeTo(f, roots[k])

C34_FilteredLeavesNoTrace ==
    [][\A f \in FwFiles, d \in ClockSteps, t \in EventTypes, isdir \in BOOLEAN :
          \/ /\ UNCHANGED <<projects, activity_log, file_events>>
             /\ (isdir \/ FwExcluded[f]) => debounce_cache' = debounce_cache
          \/ ~(isdir \/ FwExcluded[f] \/ is_debounced(debounce_cache, f, clock + d).result)
          \/ ~Handle(f, d, t, isdir, TRUE, "ok")]_vars

\* Three notifications have been handled: one was for a directory or an
\* excluded path (it is not among the notes), one was accepted and wrote
\* its row, and the last was debounced; the Store holds the one row.
C34_Witness ==
    /\ ~dry_run
    /\ nnotes = 3 /\ Len(notes) = 2
    /\ notes[1].result = "accept" /\ notes[1].rows = 1
    /\ notes[2].result = "suppress" /\ notes[2].path = notes[1].path
    /\ Len(activity_log) = 1 /\ Len(file_events) = 1
    /\ \A g \in FwFiles \ {notes[1].path} :
          lastSeen[g] = NoEntry /\ debounce_cache[g] = NoEntry
    /\ notes[1].prevAccept = NoEntry /\ notes[1].fresh

\* C20: only an accepted notification refreshes its path's debounce
\* timestamp, a suppressed one leaves the cache as it was; so a
\* notification that comes 2 s or more after the last accepted one for
\* its path is accepted, however many suppressed ones came in between.
C20_OnlyAcceptsRefresh ==
    [][notes' # notes =>
          LET n == notes'[Len(notes')]
          IN /\ n.result = "suppress" => debounce_cache' = debounce_cache
             /\ n.result = "accept" => debounce_cache'[n.path] = n.now
             /\ (n.prevAccept # NoEntry /\ n.now - n.prevAccept >= DEBOUNCE_SECONDS)
                    => n.result = "accept"]_vars

\* In a stream for one path spaced 1 s apart the notification after a
\* suppressed one is accepted, 2 s after the last accepted one.
C20_Witness ==
    /\ Len(notes) = 2
    /\ notes[1].path = notes[2].path
    /\ notes[2].now - notes[1].now < DEBOUNCE_SECONDS
    /\ notes[1].result = "suppress" /\ notes[1].prevAccept # NoEntry
    /\ notes[2].prevAccept = notes[1].prevAccept
    /\ notes[2].result = "accept"
    /\ debounce_cache[notes[2].path] = notes[2].now

\* The notification handled by this step passed the directory, exclusion
\* and debounce filters.
SurvivorStep == notes' # notes /\ notes'[Len(notes')].result = "accept"

\* C21 as stated: not in dry-run mode every handled notification that is
\* no directory, not excluded and not debounced adds exactly one
\* file_events row, and no other step adds one.
C21_OneRowPerSurvivor ==
    [][~dry_run' =>
          Len(file_events') = Len(file_events) + (IF SurvivorStep THEN 1 ELSE 0)]_vars

\* C21: not in dry-run mode a notification that passes the filters adds
\* exactly one file_events row unless its write fails, a failed write and
\* every other step add none; this holds for every notification, also
\* those handled after a failed write.
C21_OneRowPerStoredSurvivor ==
    [][~dry_run' =>
          Len(file_events') = Len(file_events)
              + (IF SurvivorStep /\ notes'[Len(notes')].rows = 1 THEN 1 ELSE 0)]_vars

\* The write for a surviving notification failed and the next surviving
\* notification was stored: two survivors, one row.
C21_Witness ==
    /\ ~dry_run
    /\ Len(notes) = 2
    /\ notes[1].result = "accept" /\ notes[1].rows = 0
    /\ notes[2].result = "accept" /\ notes[2].rows = 1
    /\ Len(file_events) = 1
    /\ file_events[1].path = notes[2].path

\* C22: in every Store state, also after a write that failed at the first
\* or between the two INSERTs, every file_events row of the collector
\* references an existing activity_log row of kind file_change with the
\* same timestamp and project reference, and every file_change row has
\* exactly one such file_events row.
C22_AtomicAndLinked ==
    /\ \A i \in 1..Len(file_events) :
          /\ file_events[i].activity_id \in 1..Len(activity_log)
          /\ activity_log[file_events[i].activity_id].kind = "file_change"
          /\ activity_log[file_events[i].activity_id].timestamp = file_events[i].timestamp
          /\ activity_log[file_events[i].activity_id].project_id = file_events[i].project_id
    /\ \A a \in 1..Len(activity_log) :
          Cardinality({i \in 1..Len(file_events) : file_events[i].activity_id = a}) = 1

\* A write failed, and the rows written before and after it are linked
\* pairs, one of them with a project reference.
C22_Witness ==
    /\ Len(notes) = 2
    /\ notes[1].result = "accept" /\ notes[1].rows = 0 /\ ~dry_run
    /\ Len(activity_log) = 2 /\ Len(file_events) = 2
    /\ file_events[1].activity_id = 1 /\ file_events[2].activity_id = 2
    /\ file_events[2].project_id # NULL
    /\ activity_log[2].project_id = file_events[2].project_id

-----------------------------------------------------------------------------
\* ---- DayTrackerDaemon (watcher_daemon.py) ----

\* The collectors in the order start() starts them.
STARTERS == <<"file watcher", "window poller", "browser sync", "vscode poller", "scheduler">>

\* The threads in the order _shutdown_all waits for them.
THREADS == <<"window poller", "browser sync", "vscode poller", "scheduler">>

Collectors == {STARTERS[i] : i \in 1..Len(STARTERS)}
Threads == {THREADS[i] : i \in 1..Len(THREADS)}

\* Collectors whose start can leave nothing running: watchdog missing or
\* start_watching raising, start_polling raising, schedule not installed.
MayFailToStart == {"file watcher", "window poller", "scheduler"}

\* A thread whose cycle let the exception out of its loop.
AfterUncaughtError(t) == "exited"

\* except Exception: print the error; the loop goes on to stop.wait(interval).
AfterCycleError(t) == "loop"

Inc(n) == IF n < MaxFails THEN n + 1 ELSE n

DaemonInit ==
    /\ dpc = "startup"
    /\ dk = 1
    /\ stop_event = FALSE
    /\ observer = "none"
    /\ th = [t \in Threads |-> "none"]
    /\ reports = [c \in Collectors |-> 0]
    /\ warned = {}
    /\ fails = [t \in Threads |-> 0]
    /\ write_failed = FALSE

\* The line a _start_* method prints when its collector could not be
\* started ("WARNING: watchdog not installed; file watcher disabled",
\* "ERROR starting file watcher", "ERROR starting window poller", ...).
StartWarning(c) == c \o " start"

\* A start() whose _start_* methods let the exception out: a collector
\* that cannot be started ends the startup sequence and the process.
StartCollectorAborting(ok) ==
    LET c == STARTERS[dk] IN
    /\ dpc = "startup"
    /\ (~ok) => c \in MayFailToStart
    /\ observer' = IF c = "file watcher" /\ ok THEN "running" ELSE observer
    /\ th' = IF c \in Threads /\ ok THEN [th EXCEPT ![c] = "loop"] ELSE th
    /\ IF ~ok THEN dk' = dk /\ dpc' = "done"
       ELSE IF dk < Len(STARTERS)
            THEN dk' = dk + 1 /\ dpc' = dpc
            ELSE dk' = 1 /\ dpc' = "main"
    /\ UNCHANGED <<stop_event, reports, warned, fails, write_failed, notDaemon>>

\* start(): _start_file_watcher, _start_window_poller, _start_browser_sync,
\* _start_vscode_thread, _start_scheduler, one after the other.  Each
\* catches what its start raises (ok = FALSE), prints a line and returns,
\* leaving its observer or thread attribute None.
StartCollector(ok) ==
    LET c == STARTERS[dk] IN
    /\ dpc = "startup"
    /\ (~ok) => c \in MayFailToStart
    /\ observer' = IF c = "file watcher" /\ ok THEN "running" ELSE observer
    /\ th' = IF c \in Threads /\ ok THEN [th EXCEPT ![c] = "loop"] ELSE th
    /\ warned' = IF ok THEN warned ELSE warned \cup {StartWarning(c)}
    /\ IF dk < Len(STARTERS)
       THEN dk' = dk + 1 /\ dpc' = dpc
       ELSE dk' = 1 /\ dpc' = "main"
    /\ UNCHANGED <<stop_event, reports, fails, write_failed, notDaemon>>

\* SIGTERM: _handle_signal -> daemon.stop() sets the stop flag.
Stop ==
    /\ dpc # "done"
    /\ ~stop_event
    /\ stop_event' = TRUE
    /\ UNCHANGED <<dpc, dk, observer, th, reports, warned, fails, write_failed, notDaemon>>

\* A loop that does not look at the flag (while True: ... time.sleep).
ThreadTestDeaf(t) ==
    /\ dpc # "done"
    /\ th[t] = "loop"
    /\ th' = [th EXCEPT ![t] = "cycle"]
    /\ UNCHANGED <<reports, fails>>
    /\ UNCHANGED <<dpc, dk, stop_event, observer, warned, write_failed, notDaemon>>

\* while not stop.is_set(): at thread start and when stop.wait(interval)
\* returns (at once when the flag is set).  With the flag set the loop ends and the thread prints its
\* "... stopped." line.
ThreadTest(t) ==
    /\ dpc # "done"
    /\ th[t] = "loop"
    /\ IF stop_event
       THEN /\ th' = [th EXCEPT ![t] = "exited"]
            /\ reports' = [reports EXCEPT ![t] = @ + 1]
            /\ fails' = [fails EXCEPT ![t] = 0]
       ELSE /\ th' = [th EXCEPT ![t] = "cycle"]
            /\ UNCHANGED <<reports, fails>>
    /\ UNCHANGED <<dpc, dk, stop_event, observer, warned, write_failed, notDaemon>>

\* The cycle (poll_once, sync_since_last, wakapi_run / activity_run,
\* schedule.run_pending) returns.
CycleOk(t) ==
    /\ dpc # "done"
    /\ th[t] = "cycle"
    /\ th' = [th EXCEPT ![t] = "loop"]
    /\ fails' = [fails EXCEPT ![t] = 0]
    /\ UNCHANGED <<dpc, dk, stop_event, observer, reports, warned, write_failed, notDaemon>>

\* The cycle raises an Exception.
CycleError(t) ==
    /\ dpc # "done"
    /\ th[t] = "cycle"
    /\ th' = [th EXCEPT ![t] = AfterCycleError(t)]
    /\ fails' = [fails EXCEPT ![t] = Inc(@)]
    /\ UNCHANGED <<dpc, dk, stop_event, observer, reports, warned, write_failed, notDaemon>>

\* The cycle does not return (e.g. subprocess.run without a timeout).
CycleStuck(t) ==
    /\ dpc # "done"
    /\ th[t] = "cycle"
    /\ th' = [th EXCEPT ![t] = "stuck"]
    /\ fails' = [fails EXCEPT ![t] = 0]
    /\ UNCHANGED <<dpc, dk, stop_event, observer, reports, warned, write_failed, notDaemon>>

\* The observer thread dispatches a notification to _handle; a failing
\* write is caught in _insert_event (ok = FALSE) and the observer runs on.
ObserverEvent(ok) ==
    /\ dpc # "done"
    /\ observer = "running"
    /\ write_failed' = ~ok
    /\ write_failed' # write_failed
    /\ UNCHANGED <<dpc, dk, stop_event, observer, th, reports, warned, fails, notDaemon>>

\* start(): the main loop ends when the flag is set; finally: _shutdown_all
\* prints, sets the flag and turns to the observer.
MainLoopExit ==
    /\ dpc = "main"
    /\ stop_event
    /\ dpc' = "observer"
    /\ UNCHANGED <<dk, stop_event, observer, th, reports, warned, fails, write_failed, notDaemon>>

\* KeyboardInterrupt in the main loop: finally: _shutdown_all sets the flag.
Interrupt ==
    /\ dpc = "main"
    /\ ~stop_event
    /\ stop_event' = TRUE
    /\ dpc' = "observer"
    /\ UNCHANGED <<dk, observer, th, reports, warned, fails, write_failed, notDaemon>>

\* KeyboardInterrupt (SIGINT) while start() is still starting the
\* collectors, before its try block: the exception leaves start(), main()
\* catches it and calls daemon.stop(), and the process ends.
InterruptStartup ==
    /\ dpc = "startup"
    /\ stop_event' = TRUE
    /\ dpc' = "done"
    /\ UNCHANGED <<dk, observer, th, reports, warned, fails, write_failed, notDaemon>>

\* _shutdown_all, "Stop watchdog observer": stop(), join(timeout=5) and
\* the "File watcher stopped." line; ok = FALSE: stop/join raised.
ShutdownObserver(ok) ==
    /\ dpc = "observer"
    /\ (observer = "none") => ok
    /\ IF observer = "none"
       THEN UNCHANGED <<observer, reports, warned>>
       ELSE IF ok
            THEN /\ observer' = "stopped"
                 /\ reports' = [reports EXCEPT !["file watcher"] = @ + 1]
                 /\ warned' = warned
            ELSE /\ warned' = warned \cup {"file watcher"}
                 /\ UNCHANGED <<observer, reports>>
    /\ dpc' = "join"
    /\ dk' = 1
    /\ UNCHANGED <<stop_event, th, fails, write_failed, notDaemon>>

\* The step of the main thread after the thread at index dk.
AfterThread ==
    IF dk < Len(THREADS)
    THEN dk' = dk + 1 /\ dpc' = "join"
    ELSE dk' = 1 /\ dpc' = "done"

\* if thread is not None and thread.is_alive(): thread.join(timeout=5)
JoinTest ==
    /\ dpc = "join"
    /\ IF th[THREADS[dk]] \in {"none", "exited"}
       THEN AfterThread
       ELSE dpc' = "joining" /\ dk' = dk
    /\ UNCHANGED <<stop_event, observer, th, reports, warned, fails, write_failed, notDaemon>>

\* join returns because the thread ended: "<Name> stopped." is printed.
JoinReturn ==
    /\ dpc = "joining"
    /\ th[THREADS[dk]] = "exited"
    /\ reports' = [reports EXCEPT ![THREADS[dk]] = @ + 1]
    /\ AfterThread
    /\ UNCHANGED <<stop_event, observer, th, warned, fails, write_failed, notDaemon>>

\* join returns after 5 s with the thread alive, inside a cycle that has
\* not ended: the warning is printed.
JoinTimeout ==
    /\ dpc = "joining"
    /\ th[THREADS[dk]] \in {"cycle", "stuck"}
    /\ warned' = warned \cup {THREADS[dk]}
    /\ AfterThread
    /\ UNCHANGED <<stop_event, observer, th, reports, fails, write_failed, notDaemon>>

NextDaemon ==
    \/ \E ok \in BOOLEAN : StartCollector(ok)
    \/ Stop
    \/ \E t \in Threads : ThreadTest(t)
    \/ \E t \in Threads : CycleOk(t)
    \/ \E t \in Threads : CycleError(t)
    \/ \E t \in Threads : CycleStuck(t)
    \/ \E ok \in BOOLEAN : ObserverEvent(ok)
    \/ MainLoopExit
    \/ Interrupt
    \/ InterruptStartup
    \/ \E ok \in BOOLEAN : ShutdownObserver(ok)
    \/ JoinTest
    \/ JoinReturn
    \/ JoinTimeout

-----------------------------------------------------------------------------
\* ---- claims about the daemon ----

\* C7: when shutdown has completed, every collector thread that was
\* started has reported "stopped" exactly once, also when it is stuck, and
\* so has the file watcher whose observer was stopped.
C7_EveryCollectorStoppedOnce ==
    dpc = "done" =>
        /\ \A t \in Threads : th[t] # "none" => reports[t] = 1
        /\ observer = "stopped" => reports["file watcher"] = 1

\* C8: an error raised in a collector cycle is caught at the collector's
\* boundary: the failing thread goes on to its wait and next cycle, no
\* thread and not the main loop ends while the stop flag is unset, and no
\* number of consecutive failures stops a collector.
C8_ErrorsCaughtAtBoundary ==
    /\ \A t \in Threads : th[t] = "exited" => stop_event
    /\ \A t \in Threads : fails[t] > 0 => th[t] \in {"loop", "cycle"}
    /\ \A t \in Threads :
          (th[t] = "loop" /\ fails[t] > 0 /\ dpc # "done") => ENABLED ThreadTest(t)
    /\ write_failed => observer \in {"running", "stopped"}
    /\ observer = "stopped" => stop_event
    /\ dpc \notin {"startup", "main"} => stop_event

\* C28: whenever SIGTERM or SIGINT arrives after start() has begun, also
\* during the startup sequence, the process ends only with the stop flag
\* set and the observer, if it was started, stopped and joined by
\* _shutdown_all (or the failure to do so reported), and _shutdown_all is
\* entered once, from the main loop, and is what ends the process.
C28_SignalShutsDownOnce ==
    /\ [](dpc = "done" =>
             /\ stop_event
             /\ observer = "running" => "file watcher" \in warned)
    /\ [][/\ (dpc' = "done" /\ dpc # "done") => dpc \in {"join", "joining"}
          /\ (dpc' = "observer" /\ dpc # "observer") => dpc = "main"
          /\ dpc \notin {"startup", "main"} => dpc' \notin {"startup", "main"}]_vars

\* C31: when the file watcher cannot be started (watchdog missing, or
\* start_watching / observer.start raises), start() prints a warning and
\* goes on to start the window, browser, coding-activity and scheduler
\* collectors and enters its main loop; at shutdown _shutdown_all does
\* not stop, join or report an observer that was never started.
C31_WatcherFailureTolerated ==
    /\ [][(dk = 1 /\ StartCollector(FALSE))
              => /\ dpc' = "startup" /\ dk' = 2
                 /\ StartWarning("file watcher") \in warned'
                 /\ observer' = "none"]_vars
    /\ [][\A ok \in BOOLEAN :
              (dk = Len(STARTERS) /\ StartCollector(ok)) => dpc' = "main"]_vars
    /\ []((dpc = "main" /\ observer = "none")
              => /\ StartWarning("file watcher") \in warned
                 /\ \A t \in Threads :
                       th[t] # "none" \/ StartWarning(t) \in warned)
    /\ [][(dpc = "observer" /\ observer = "none")
              => /\ observer' = "none"
                 /\ reports'["file watcher"] = reports["file watcher"]
                 /\ warned' = warned]_vars

\* The file watcher could not be started, the four threads ran, and the
\* shutdown has completed without a report or a warning about stopping
\* the file watcher.
C31_Witness ==
    /\ dpc = "done"
    /\ observer = "none"
    /\ StartWarning("file watcher") \in warned
    /\ "file watcher" \notin warned
    /\ reports["file watcher"] = 0
    /\ \A t \in Threads : th[t] = "exited" /\ reports[t] >= 1

\* A thread runs a further cycle after MaxFails consecutive failed ones,
\* the flag is unset, the filesystem handler has had failing writes, and
\* the other collectors and the main loop are running.
C8_Witness ==
    /\ ~stop_event
    /\ dpc = "main"
    /\ \E t \in Threads :
          /\ th[t] = "cycle" /\ fails[t] = MaxFails
          /\ \A u \in Threads \ {t} : th[u] \in {"loop", "cycle"}
    /\ observer = "running" /\ write_failed

-----------------------------------------------------------------------------
\* ---- window poller, commit collector, coding-activity collectors and
\* ---- hook installer (window_poller.py, git_commit.py, vscode_activity.py,
\* ---- vscode_wakapi.py, install_git_hook.py)

\* Rows a run may add to alog before the model stops adding.
MaxRows == 1

\* Directories that exist below the watch roots.
Dirs == { <<"root", "myproj">>, <<"root", "notes">> }

\* Directories with a .git entry (find_git_repos finds these).
GitRepos == { <<"root", "myproj">> }

\* get_active_window_info(): None or {app, title, project}.
NoWindow == [app |-> "", title |-> "", project |-> ""]

Windows == { [app |-> "Code", title |-> "a.py - myproj - Visual Studio Code",
               project |-> "myproj"] }

\* for root in watch_roots: candidate = Path(root) / name; the first
\* candidate that exists, else "".
RECURSIVE CandidateFrom(_, _, _)
CandidateFrom(name, roots, k) ==
    IF k > Len(roots) THEN <<>>
    ELSE IF Append(roots[k], name) \in Dirs THEN Append(roots[k], name)
         ELSE CandidateFrom(name, roots, k + 1)

candidate_path(name, roots) == CandidateFrom(name, roots, 1)

\* One row of alog.
ActivityRow(event_type, project_id, key, duration_s) ==
    [event_type |-> event_type, project_id |-> project_id, key |-> key,
     duration_s |-> duration_s]

\* A window insert that ignores dry_run.
insert_window_event_always(rows, app, title, project_id, dry, dbOk) ==
    IF dbOk THEN Append(rows, ActivityRow("window_focus", project_id, title, NULL))
    ELSE rows

\* _insert_window_event(db_path, app, title, project_id, dry_run); dbOk:
\* no sqlite3.Error.
insert_window_event(rows, app, title, project_id, dry, dbOk) ==
    IF dry THEN rows
    ELSE IF dbOk THEN Append(rows, ActivityRow("window_focus", project_id, title, NULL))
         ELSE rows

\* poll_once(dry_run, config): one cycle of the window poller.
PollBody(info, dry, gocOk, dbOk) ==
    LET window_key == <<info.app, info.title>>
        skip == info = NoWindow \/ window_key = last_window
        mapped == ~skip /\ info.project # "" /\ ~dry
        goc == get_or_create_project(projects, info.project,
                                     candidate_path(info.project, WATCH_ROOTS))
        project_id == IF mapped /\ gocOk THEN goc.id ELSE NULL
    IN /\ (~mapped) => gocOk
       /\ (skip \/ dry) => dbOk
       /\ last_window' = IF skip THEN last_window ELSE window_key
       /\ projects' = IF mapped /\ gocOk THEN goc.rows ELSE projects
       /\ alog' = IF skip THEN alog
                  ELSE insert_window_event(alog, info.app, info.title, project_id, dry, dbOk)

PollOnce(info, dry, gocOk, dbOk) ==
    /\ PollBody(info, dry, gocOk, dbOk)
    /\ Len(alog') <= MaxRows
    /\ UNCHANGED <<file_events, hooks, exit_code, notCollectors>>

\* --repo arguments of the commit collector.
RepoArgs == { <<"root", "myproj">>, <<"root", "notes">> }

\* get_changed_files(repo_path); [] also when git diff-tree fails.
ChangedFiles == { <<>>, <<"a.py", "b.py">> }

\* The file_events rows of one commit: one per changed file.
CommitFileRows(activity_id, repo, files, project_id) ==
    [i \in 1..Len(files) |->
        [activity_id |-> activity_id, path |-> Append(repo, files[i]),
         event_type |-> "modified", project_id |-> project_id]]

\* The exit code main() ends with: sys.exit(1) in the except branch when
\* run() raised, falling off the end of main() when run() returned.
ExitCodeOf(outcome) == IF outcome = "raised" THEN 1 ELSE 0

\* record_commit without the enclosing transaction: every INSERT is kept
\* as soon as it is executed, so the activity row outlives a failing
\* file_events INSERT.
record_commit_autocommit(al, fe, repo, files, project_id, dry, db) ==
    IF dry \/ db = "missing" THEN [alog |-> al, file_events |-> fe]
    ELSE IF db = "error"
         THEN [alog |-> Append(al, ActivityRow("git_commit", project_id, "c1", NULL)),
               file_events |-> fe]
         ELSE [alog |-> Append(al, ActivityRow("git_commit", project_id, "c1", NULL)),
               file_events |-> fe \o CommitFileRows(Len(al) + 1, repo, files, project_id)]

\* record_commit(repo_path, commit, changed_files, db_path, config,
\* dry_run) after project resolution: returns before the database in
\* dry-run mode and when worklog.db does not exist; otherwise one
\* transaction (with sqlite3.connect ... conn.commit()) inserts the
\* activity row, takes its lastrowid and inserts one file_events row per
\* changed file; a sqlite3.Error leaves the with block, which rolls the
\* transaction back, and is printed.
record_commit(al, fe, repo, files, project_id, dry, db) ==
    IF dry \/ db # "ok" THEN [alog |-> al, file_events |-> fe]
    ELSE [alog |-> Append(al, ActivityRow("git_commit", project_id, "c1", NULL)),
          file_events |-> fe \o CommitFileRows(Len(al) + 1, repo, files, project_id)]

\* git_commit.py --repo <repo> [--dry-run]: main(), run() and
\* record_commit().  resolveOk: Path(repo_path).resolve() returned (else
\* it raised, e.g. on a symlink loop); gitOk: get_latest_commit returned
\* (else RuntimeError); db: "ok", "missing" (no worklog.db) or "error"
\* (sqlite3.Error inside the transaction).
GitCommitBody(repo, dry, resolveOk, gitOk, files, gocOk, db) ==
    LET has_git == repo \in GitRepos
        recorded == resolveOk /\ has_git /\ gitOk
        project_name == map_path_to_project(repo, WATCH_ROOTS)
        mapped == recorded /\ project_name # "" /\ ~dry
        goc == get_or_create_project(projects, project_name, repo)
        project_id == IF mapped /\ gocOk THEN goc.id ELSE NULL
        stored == record_commit(alog, file_events, repo, files, project_id, dry, db)
    IN /\ (~recorded) => (files = <<>> /\ db = "ok")
       /\ (~resolveOk \/ ~has_git) => gitOk
       /\ (~mapped) => gocOk
       /\ dry => db = "ok"
       /\ exit_code' = ExitCodeOf(IF resolveOk THEN "returned" ELSE "raised")
       /\ projects' = IF mapped /\ gocOk THEN goc.rows ELSE projects
       /\ alog' = IF recorded THEN stored.alog ELSE alog
       /\ file_events' = IF recorded THEN stored.file_events ELSE file_events

GitCommitMain(repo, dry, resolveOk, gitOk, files, gocOk, db) ==
    /\ GitCommitBody(repo, dry, resolveOk, gitOk, files, gocOk, db)
    /\ Len(alog') <= MaxRows
    /\ UNCHANGED <<last_window, hooks, notCollectors>>

\* Projects the editor reports ("" = an activity with no project match).
CodingProjects == {"myproj", ""}

\* The day the coding-activity rows are for.
Today == "d1"

\* Projects in a Wakapi summary.
WakapiProjects == {"myproj"}

\* total_seconds of a Wakapi project summary.
TotalSeconds == {60, 120}

\* SELECT id FROM activity_log WHERE event_type = ? AND project_id IS ?
\* AND timestamp LIKE date%: the first such row, 0 when there is none.
ExistingRow(rows, event_type, project_id, date) ==
    LET S == {i \in 1..Len(rows) : /\ rows[i].event_type = event_type
                                   /\ rows[i].project_id = project_id
                                   /\ rows[i].key = date}
    IN IF S = {} THEN 0 ELSE CHOOSE i \in S : \A j \in S : i <= j

\* vscode_activity.run(dry_run, hours, config) with one workspace reference
\* found for project proj; found: the log directory exists and the scan
\* returned the reference.
VscodeActivityBody(dry, found, proj, gocOk, dbOk) ==
    LET syncing == found /\ ~dry
        mapped == syncing /\ proj # ""
        goc == get_or_create_project(projects, proj, candidate_path(proj, WATCH_ROOTS))
        project_id == IF mapped /\ gocOk THEN goc.id ELSE NULL
        existing == ExistingRow(alog, "vscode_activity", project_id, Today)
    IN /\ (~mapped) => gocOk
       /\ (~syncing) => dbOk
       /\ (~found) => proj = ""
       /\ projects' = IF mapped /\ gocOk THEN goc.rows ELSE projects
       /\ alog' = IF syncing /\ dbOk /\ existing = 0
                  THEN Append(alog, ActivityRow("vscode_activity", project_id, Today, NULL))
                  ELSE alog

VscodeActivityRun(dry, found, proj, gocOk, dbOk) ==
    /\ VscodeActivityBody(dry, found, proj, gocOk, dbOk)
    /\ Len(alog') <= MaxRows
    /\ UNCHANGED <<file_events, last_window, hooks, exit_code, notCollectors>>

\* vscode_wakapi.sync_to_db for one project summary: UPDATE of the
\* existing row of the date and project, else INSERT.
wakapi_upsert(rows, project_id, date, total_seconds) ==
    LET existing == ExistingRow(rows, "vscode_coding", project_id, date)
    IN IF existing # 0
       THEN [rows EXCEPT ![existing].duration_s = total_seconds]
       ELSE Append(rows, ActivityRow("vscode_coding", project_id, date, total_seconds))

\* vscode_wakapi.run(dry_run, date, config) with one project in the
\* summary; up: Wakapi is enabled, reachable and returned a summary.
WakapiBody(dry, up, proj, secs, gocOk, dbOk) ==
    LET syncing == up /\ ~dry
        goc == get_or_create_project(projects, proj, candidate_path(proj, WATCH_ROOTS))
        project_id == IF syncing /\ gocOk THEN goc.id ELSE NULL
    IN /\ (~syncing) => (gocOk /\ dbOk)
       /\ projects' = IF syncing /\ gocOk THEN goc.rows ELSE projects
       /\ alog' = IF syncing /\ dbOk
                  THEN wakapi_upsert(alog, project_id, Today, secs)
                  ELSE alog

WakapiRun(dry, up, proj, secs, gocOk, dbOk) ==
    /\ WakapiBody(dry, up, proj, secs, gocOk, dbOk)
    /\ Len(alog') <= MaxRows
    /\ UNCHANGED <<file_events, last_window, hooks, exit_code, notCollectors>>

\* Contents of a post-commit hook file: none, another tool's script, the
\* DayTracker snippet behind a shebang, another tool's script followed by
\* the snippet.
HookContents == {"", "other", "daytracker", "other+daytracker"}

\* The snippet install_hook writes, from its begin marker to its end
\* marker, and what it puts between an existing script and the snippet.
HOOK_BEGIN_MARKER == "daytracker"
HOOK_SEPARATOR == "+"

\* The positions in the content at which the marker starts.
Occurrences(content, marker) ==
    {i \in 1..(Len(content) - Len(marker) + 1) :
        SubSeq(content, i, i + Len(marker) - 1) = marker}

\* _hook_already_installed(content): the begin marker is in the content.
hook_already_installed(content) == Occurrences(content, HOOK_BEGIN_MARKER) # {}

\* An install_hook without the _hook_already_installed test.
install_hook_unchecked(content, dry, ioOk) ==
    IF dry \/ ~ioOk THEN content
    ELSE IF content = "" THEN HOOK_BEGIN_MARKER
         ELSE content \o HOOK_SEPARATOR \o HOOK_BEGIN_MARKER

\* install_hook(repo_path, project_root, dry_run): the hook file
\* afterwards; ioOk: write_text did not raise OSError.  An existing
\* script gets the snippet appended, a new file is the snippet behind the
\* shebang.
install_hook(content, dry, ioOk) ==
    IF hook_already_installed(content) THEN content
    ELSE IF dry \/ ~ioOk THEN content
         ELSE IF content = "" THEN HOOK_BEGIN_MARKER
              ELSE content \o HOOK_SEPARATOR \o HOOK_BEGIN_MARKER

\* The hook installation start() skips in dry-run mode.
skip_hook_installation(dry) == dry

\* DayTrackerDaemon.start(): _install_git_hooks, which runs
\* install_git_hook.run(uninstall=False, dry_run=False) over the repositories.
InstallGitHooks(dry, ioOk) ==
    /\ hooks' = IF skip_hook_installation(dry) THEN hooks
                ELSE [r \in GitRepos |-> install_hook(hooks[r], FALSE, ioOk)]
    /\ dry => ioOk
    /\ hooks' # hooks \/ dry \/ ~ioOk
    /\ UNCHANGED <<projects, file_events, last_window, alog, exit_code, notCollectors>>

\* install_git_hook.py [--dry-run]: run(uninstall=False, dry_run).
InstallHooksCli(dry, ioOk) ==
    /\ hooks' = [r \in GitRepos |-> install_hook(hooks[r], dry, ioOk)]
    /\ dry => ioOk
    /\ hooks' # hooks \/ dry
    /\ UNCHANGED <<projects, file_events, last_window, alog, exit_code, notCollectors>>

\* Somebody else writes a post-commit hook into a repository.
OtherHook(r) ==
    /\ hooks[r] = ""
    /\ hooks' = [hooks EXCEPT ![r] = "other"]
    /\ UNCHANGED <<projects, file_events, last_window, alog, exit_code, notCollectors>>

\* Nothing polled, no row, no hook file, no commit collector run yet.
CollectorsInit ==
    /\ last_window = <<>>
    /\ alog = <<>>
    /\ hooks = [r \in GitRepos |-> ""]
    /\ exit_code = NoEntry

\* What the filesystem handler and the browser are given next to the
\* other collectors: one notification, one visit.
CoFiles == {FileA}
CoUrls == {"u1"}

\* Every collector operation, each in dry-run mode or not.  Project
\* resolution succeeds here (its failures are in SpecProj and SpecWatcher);
\* a browser sync runs once per state of the history.
NextCollectors ==
    \/ \E info \in Windows \cup {NoWindow}, dry, dbOk \in BOOLEAN :
          PollOnce(info, dry, TRUE, dbOk)
    \/ \E repo \in RepoArgs, dry, resolveOk, gitOk \in BOOLEAN,
          files \in ChangedFiles, db \in {"ok", "missing", "error"} :
          GitCommitMain(repo, dry, resolveOk, gitOk, files, TRUE, db)
    \/ \E dry, found, dbOk \in BOOLEAN, proj \in CodingProjects :
          VscodeActivityRun(dry, found, proj, TRUE, dbOk)
    \/ \E dry, up, dbOk \in BOOLEAN, proj \in WakapiProjects, secs \in TotalSeconds :
          WakapiRun(dry, up, proj, secs, TRUE, dbOk)
    \/ \E dry, ioOk \in BOOLEAN : InstallGitHooks(dry, ioOk)
    \/ \E dry, ioOk \in BOOLEAN : InstallHooksCli(dry, ioOk)
    \/ \E r \in GitRepos : OtherHook(r)
    \/ \E dry \in BOOLEAN : StartWatching(dry, MaxStartClock)
    \/ (nnotes = 0 /\ \E f \in CoFiles : Handle(f, 0, "modified", FALSE, TRUE, "ok"))
    \/ (history = {} /\ \E u \in CoUrls : AddVisit(u))
    \/ (run = NoRun /\ \E dry \in BOOLEAN : SyncSinceLast(dry, TRUE, 0, "ok"))

-----------------------------------------------------------------------------
\* ---- claims about the collectors' write paths ----

\* The Store: the projects table and the rows of activity_log and
\* file_events, whatever collector wrote them.
Store == <<projects, activity_log, file_events, alog, blog>>

\* C11: the commit collector given a path with no .git directory exits
\* with code 1 and writes nothing to the Store.
C11_NoGitExitsOne ==
    [][\A repo \in RepoArgs \ GitRepos, dry \in BOOLEAN :
          GitCommitMain(repo, dry, TRUE, TRUE, <<>>, TRUE, "ok")
              => (exit_code' = 1 /\ UNCHANGED Store)]_vars

\* A step of some collector operation in dry-run mode.
DryRunStep ==
    \/ \E info \in Windows \cup {NoWindow} : PollOnce(info, TRUE, TRUE, TRUE)
    \/ \E repo \in RepoArgs, resolveOk, gitOk \in BOOLEAN, files \in ChangedFiles :
          GitCommitMain(repo, TRUE, resolveOk, gitOk, files, TRUE, "ok")
    \/ \E found \in BOOLEAN, proj \in CodingProjects :
          VscodeActivityRun(TRUE, found, proj, TRUE, TRUE)
    \/ \E up \in BOOLEAN, proj \in WakapiProjects, secs \in TotalSeconds :
          WakapiRun(TRUE, up, proj, secs, TRUE, TRUE)
    \/ InstallGitHooks(TRUE, TRUE)
    \/ InstallHooksCli(TRUE, TRUE)
    \/ (dry_run /\ \E f \in CoFiles : Handle(f, 0, "modified", FALSE, TRUE, "ok"))
    \/ (run = NoRun /\ SyncSinceLast(TRUE, TRUE, 0, "ok"))

\* C12: with dry-run set, no collector operation (filesystem handling,
\* window poll_once, browser sync_since_last, commit collector,
\* coding-activity run, the daemon's hook installation) changes the Store,
\* the browser cursor or a repository's hook file.
C12_DryRunChangesNothing ==
    [][DryRunStep => UNCHANGED <<Store, last_sync_unix, hooks>>]_vars

\* The Store holds rows and a hook file exists, and the filesystem handler
\* in dry-run mode has accepted a notification without writing a row.
C12_Witness ==
    /\ dry_run
    /\ Len(notes) = 1 /\ notes[1].result = "accept"
    /\ file_events = <<>>
    /\ Len(alog) > 0 /\ Len(projects) > 0
    /\ \E r \in GitRepos : hooks[r] = "other"
    /\ last_window # <<>>

\* C35: hook installation is idempotent: install_hook on a hook file that
\* already holds the DayTracker block leaves the file unchanged, so after
\* any number of daemon startups and installer runs every hook file holds
\* at most one block, and exactly one after a startup that could write.
C35_HookInstallIdempotent ==
    /\ [](\A r \in GitRepos : Cardinality(Occurrences(hooks[r], HOOK_BEGIN_MARKER)) <= 1)
    /\ [][\A r \in GitRepos :
              hook_already_installed(hooks[r])
                  => \A dry, ioOk \in BOOLEAN :
                         /\ install_hook(hooks[r], dry, ioOk) = hooks[r]
                         /\ (InstallGitHooks(dry, ioOk) \/ InstallHooksCli(dry, ioOk))
                                => hooks'[r] = hooks[r]]_vars
    /\ [][InstallGitHooks(FALSE, TRUE)
              => \A r \in GitRepos :
                    Cardinality(Occurrences(hooks'[r], HOOK_BEGIN_MARKER)) = 1]_vars

\* The block was appended to another tool's hook, and collectors have
\* run since.
C35_Witness ==
    /\ \E r \in GitRepos : hooks[r] = "other" \o HOOK_SEPARATOR \o HOOK_BEGIN_MARKER
    /\ Len(alog) > 0

\* The rows one recorded commit adds: one git_commit activity row at the
\* end of alog and, after the old file_events rows, one row of kind
\* modified per changed file, in order, each carrying the id of that
\* activity row.
CommitRowsAdded(repo, files) ==
    /\ Len(alog') = Len(alog) + 1
    /\ SubSeq(alog', 1, Len(alog)) = alog
    /\ alog'[Len(alog')].event_type = "git_commit"
    /\ Len(file_events') = Len(file_events) + Len(files)
    /\ SubSeq(file_events', 1, Len(file_events)) = file_events
    /\ \A i \in 1..Len(files) :
          LET row == file_events'[Len(file_events) + i]
          IN /\ row.event_type = "modified"
             /\ row.path = Append(repo, files[i])
             /\ row.activity_id = Len(alog')

\* C29: record_commit, not in dry-run mode and with the Store present,
\* writes exactly one activity row of kind git_commit and exactly one
\* file_events row of kind modified per changed file, each carrying that
\* activity row's id, in one transaction: when an insert fails none of
\* these rows exists afterwards and the error is only logged (the
\* collector still ends with exit code 0).
C29_CommitRowsInOneTransaction ==
    [][\A repo \in RepoArgs \cap GitRepos, files \in ChangedFiles,
          db \in {"ok", "error"} :
          \/ /\ exit_code' = 0
             /\ db = "ok" => CommitRowsAdded(repo, files)
             /\ db = "error" => UNCHANGED <<alog, file_events>>
          \/ ~GitCommitMain(repo, FALSE, TRUE, TRUE, files, TRUE, db)]_vars

\* A recorded commit with two changed files: its activity row and both
\* of its file rows are in the Store.
C29_Witness ==
    \E i \in 1..Len(alog), repo \in RepoArgs :
        /\ alog[i].event_type = "git_commit"
        /\ \A f \in {"a.py", "b.py"} :
              \E j \in 1..Len(file_events) :
                  /\ file_events[j].path = Append(repo, f)
                  /\ file_events[j].activity_id = i
                  /\ file_events[j].event_type = "modified"

\* C30: the commit collector given a missing Store file or an invalid
\* repository path (one that has no .git directory or cannot be resolved)
\* returns without raising and writes no row.
C30_CleanEarlyReturn ==
    [][\A repo \in RepoArgs, dry, resolveOk, gitOk \in BOOLEAN,
          files \in ChangedFiles, db \in {"ok", "missing"} :
          (/\ GitCommitMain(repo, dry, resolveOk, gitOk, files, TRUE, db)
           /\ (db = "missing" \/ repo \notin GitRepos \/ ~resolveOk))
              => (exit_code' = 0 /\ UNCHANGED <<alog, file_events, activity_log, blog>>)]_vars

\* s is a prefix of t.
IsPrefix(s, t) == Len(s) <= Len(t) /\ SubSeq(t, 1, Len(s)) = s

\* C13: the event log is append-only: no operation updates or deletes an
\* existing activity_log or file_events row.
C13_AppendOnly ==
    [][/\ IsPrefix(alog, alog')
       /\ IsPrefix(activity_log, activity_log')
       /\ IsPrefix(file_events, file_events')
       /\ blog \sqsubseteq blog']_vars


-----------------------------------------------------------------------------
\* ---- pure functions: map_path_to_project (project_mapper.py) ----

\* Length of the watch_roots lists tried.
MaxRoots == 2

NoCall == [fn |-> "none", args |-> <<>>, result |-> ""]

\* Roots a configuration may list: two top-level directories and a
\* directory below one of them.
MapRoots == { <<"root">>, <<"Work">>, <<"root", "myproj">> }

\* Lists of distinct roots of length 0..MaxRoots.
MapRootLists ==
    UNION {{r \in [1..n -> MapRoots] : \A i, j \in 1..n : i # j => r[i] # r[j]} :
           n \in 0..MaxRoots}

\* Paths resolved: files below a root, a root itself, a path that
\* differs from a root in case only, a path below no root.
MapPaths == {FileA, FileB, FileC, FileW, FileX, FileN,
             <<"Work", "MyProj", "d.py">>, <<"Work", "a.txt">>,
             <<"root">>, <<"work">>, <<"root", "myproj">>}

\* map_path_to_project(file_path, watch_roots) applied to one input.
MapCall(f, roots) ==
    /\ call' = [fn |-> "map_path_to_project", args |-> <<f, roots>>,
                result |-> map_path_to_project(f, roots)]
    /\ UNCHANGED notCall

NextMapper == \E f \in MapPaths, roots \in MapRootLists : MapCall(f, roots)

\* The first components the path has relative to the roots it is relative to.
FirstComponents(f, roots) ==
    {RelParts(f, roots[k])[1] :
        k \in {j \in 1..Len(roots) : IsRelativeTo(f, roots[j]) /\ Len(f) > Len(roots[j])}}

\* C15: if the path is relative to some watch root, map_path_to_project
\* returns the first component of that relative path, exactly as it
\* appears in the path; if no root matches it returns None.
C15_FirstComponentAsWritten ==
    call.fn = "map_path_to_project" =>
        LET f == call.args[1]
            roots == call.args[2]
        IN IF FirstComponents(f, roots) = {}
           THEN call.result = ""
           ELSE call.result \in FirstComponents(f, roots)

-----------------------------------------------------------------------------
\* ---- pure functions: _should_exclude (file_watcher.py) ----

\* Length of the exclude_patterns lists tried.
MaxPatterns == 2

\* Patterns a configuration may list: a directory name, a suffix glob, a
\* glob over the full path, a glob for three-letter names, a prefix of a
\* file name.
ExPatterns == {"node_modules", "*.tmp", "*/src/*", "???", "index"}

\* Lists of distinct patterns of length 0..MaxPatterns.
ExPatternLists ==
    UNION {{e \in [1..n -> ExPatterns] : \A i, j \in 1..n : i # j => e[i] # e[j]} :
           n \in 0..MaxPatterns}

\* Paths filtered.
ExPaths == { <<"root", "app", "node_modules", "pkg", "index.js">>,
             <<"root", "app", "src", "node_modules_helper.js">>,
             <<"data", "x.tmp">>, <<"data", "x.tmpl">>, <<"index">>, <<>>, FileA }

\* _should_exclude(path, exclude_patterns) applied to one input.
ExcludeCall(path, patterns) ==
    /\ call' = [fn |-> "_should_exclude", args |-> <<path, patterns>>,
                result |-> should_exclude(path, patterns)]
    /\ UNCHANGED notCall

NextExclude == \E path \in ExPaths, patterns \in ExPatternLists : ExcludeCall(path, patterns)

\* The strings of a path a pattern is held against: its parts, its
\* basename and the full path string.
WholeStrings(path) ==
    {PathParts(path)[i] : i \in 1..Len(PathParts(path))} \cup {PathName(path), PathStr(path)}

\* The pattern has no wildcard character.
IsLiteral(pat) == \A i \in 1..Len(pat) : SubSeq(pat, i, i) \notin {"*", "?", "["}

\* sub occurs inside str without being the whole of it.
IsProperSubstring(sub, str) ==
    /\ Len(sub) < Len(str)
    /\ \E i \in 1..(Len(str) - Len(sub) + 1) : SubSeq(str, i, i + Len(sub) - 1) = sub

\* C16: _should_exclude(p, E) is true exactly when some pattern of E
\* matches a whole path component of p, the basename of p or the full path
\* string of p; a pattern that only occurs as a proper substring of a
\* component does not exclude.
C16_ExcludeIffWholeMatch ==
    call.fn = "_should_exclude" =>
        LET path == call.args[1]
            patterns == call.args[2]
        IN /\ call.result <=>
                 \E k \in 1..Len(patterns) : \E str \in WholeStrings(path) :
                     GlobMatch(str, patterns[k])
           /\ (\A k \in 1..Len(patterns) :
                  /\ IsLiteral(patterns[k])
                  /\ patterns[k] \notin WholeStrings(path))
                 => ~call.result

\* node_modules is held against /root/app/src/node_modules_helper.js, of
\* whose last component it is a proper substring, and does not exclude it;
\* and it has excluded nothing it should not.
C16_Witness ==
    /\ call.fn = "_should_exclude"
    /\ call.args[1] = <<"root", "app", "src", "node_modules_helper.js">>
    /\ call.args[2] = <<"node_modules">>
    /\ IsProperSubstring("node_modules", PathName(call.args[1]))
    /\ ~call.result
    /\ should_exclude(<<"root", "app", "node_modules", "pkg", "index.js">>, call.args[2])

-----------------------------------------------------------------------------
\* ---- pure functions: epoch conversion (browser_history.py) ----
\* Python floats are IEEE doubles (53-bit significand, round to nearest,
\* ties to even) and Python ints are exact.  The numbers involved are near
\* 1.7e9 s, 1.7e15 us and 1.3e16 us, so they are written here as offsets
\* from base points that lie on every grid involved, in units of 2^-16 us:
\*   Unix time      t = 1 700 000 000 s + x      (doubles there are 2^-22 s apart)
\*   t * 1_000_000    = 1.7e15 us + x            (doubles there are 2^-2 us apart)
\*   Chrome time    c = CHROME_EPOCH_OFFSET_US + 1.7e15 us + x
\*                                               (doubles there are 2 us apart)
\* where CHROME_EPOCH_OFFSET_US = 11644473600 * 1_000_000.  The base points
\* are even multiples of each spacing, so rounding a sum base + x is
\* base + (x rounded), ties included.

\* Unix timestamps tried: 1.7e9 s + k * 2^-22 s for k in 0..MaxGridSteps.
MaxGridSteps == 127

\* One microsecond, in units of 2^-16 us.
MICROSECOND == 65536

\* Spacing of doubles in [2^30, 2^31) seconds: 2^-22 s = 15625 * 2^-16 us.
UNIX_SPACING == 15625

\* Spacing of doubles in [2^50, 2^51) us: 2^-2 us.
PRODUCT_SPACING == 16384

\* Spacing of doubles in [2^53, 2^54) us: 2 us.
CHROME_SPACING == 131072

\* x rounded to the nearest multiple of g, a tie to the even multiple.
RoundHalfEven(x, g) ==
    LET q == x \div g
        r == x % g
    IN IF 2 * r < g THEN q * g
       ELSE IF 2 * r > g THEN (q + 1) * g
            ELSE IF q % 2 = 0 THEN q * g ELSE (q + 1) * g

\* unix_ts * 1_000_000 + CHROME_EPOCH_OFFSET_US in float arithmetic: the
\* sum of two doubles, rounded to the doubles near 1.3e16.
float_add(x) == RoundHalfEven(x, CHROME_SPACING)

\* _unix_to_chrome_ts(unix_ts) = int(unix_ts * 1_000_000 + CHROME_EPOCH_OFFSET_US):
\* the float product, the float sum, int() of a float that is a whole number.
unix_to_chrome_ts(x) == float_add(RoundHalfEven(x, PRODUCT_SPACING))

\* _chrome_ts_to_unix(chrome_ts) = (chrome_ts - CHROME_EPOCH_OFFSET_US) / 1_000_000:
\* an exact int difference, then the correctly rounded quotient.
chrome_ts_to_unix(c) == RoundHalfEven(c, UNIX_SPACING)

\* _chrome_ts_to_unix(_unix_to_chrome_ts(t)) for t = 1.7e9 s + k * 2^-22 s.
RoundTrip(k) ==
    /\ call' = [fn |-> "round_trip", args |-> <<k * UNIX_SPACING>>,
                result |-> chrome_ts_to_unix(unix_to_chrome_ts(k * UNIX_SPACING))]
    /\ UNCHANGED notCall

NextEpoch == \E k \in 0..MaxGridSteps : RoundTrip(k)

Abs(x) == IF x >= 0 THEN x ELSE -x

\* C17: for any Unix timestamp t, _chrome_ts_to_unix(_unix_to_chrome_ts(t))
\* equals t within microsecond precision: the two differ by at most one
\* microsecond.
C17_RoundTripWithinMicrosecond ==
    call.fn = "round_trip" => Abs(call.result - call.args[1]) <= MICROSECOND

-----------------------------------------------------------------------------
\* ---- threads inside _is_debounced (file_watcher.py) ----
\* Each thread calls _is_debounced(path) once for the same path; the steps
\* of a call are the clock reading, the lock acquisition, the read of the
\* cache and the decision with its writes and the release of the lock.

NumThreads == 2

\* Seconds the clock advances while the calls are under way.
MaxBurstTicks == 2

DebounceThreads == 1..NumThreads

\* The path all the calls are for.
BurstPath == FileA

NoCallYet == [pc |-> "idle", now |-> NoEntry, last |-> NoEntry, result |-> "none"]

DebounceInit ==
    /\ lock = 0
    /\ dt = [t \in DebounceThreads |-> NoCallYet]

\* Time passes.
BurstTick ==
    /\ clock # NoEntry
    /\ clock < MaxStartClock + MaxBurstTicks
    /\ clock' = clock + 1
    /\ UNCHANGED <<debounce_cache, dbVars, notDebounce>>

\* `with _debounce_lock`: the thread may enter when nobody holds the lock.
lock_free(holder, t) == holder = 0

\* now = time.monotonic()
ReadClock(t) ==
    /\ clock # NoEntry
    /\ dt[t].pc = "idle"
    /\ dt' = [dt EXCEPT ![t].pc = "entered", ![t].now = clock]
    /\ UNCHANGED <<lock, clock, debounce_cache, notDebounce>>

\* with _debounce_lock:
Acquire(t) ==
    /\ dt[t].pc = "entered"
    /\ lock_free(lock, t)
    /\ lock' = t
    /\ dt' = [dt EXCEPT ![t].pc = "locked"]
    /\ UNCHANGED <<clock, debounce_cache, notDebounce>>

\* last = _debounce_cache.get(path, 0.0)
ReadLast(t) ==
    /\ dt[t].pc = "locked"
    /\ dt' = [dt EXCEPT ![t].pc = "read", ![t].last = cache_get(debounce_cache, BurstPath)]
    /\ UNCHANGED <<lock, clock, debounce_cache, notDebounce>>

\* The test, the writes of the accept branch, the end of the with-block.
Decide(t) ==
    /\ dt[t].pc = "read"
    /\ IF Debounced(dt[t].last, dt[t].now)
       THEN /\ dt' = [dt EXCEPT ![t].pc = "done", ![t].result = "suppress"]
            /\ UNCHANGED debounce_cache
       ELSE /\ dt' = [dt EXCEPT ![t].pc = "done", ![t].result = "accept"]
            /\ debounce_cache' =
                   Prune([debounce_cache EXCEPT ![BurstPath] = dt[t].now], dt[t].now)
    /\ lock' = IF lock = t THEN 0 ELSE lock
    /\ UNCHANGED <<clock, notDebounce>>

NextDebounce ==
    \/ \E c \in StartClocks : StartWatching(FALSE, c)
    \/ BurstTick
    \/ \E t \in DebounceThreads : ReadClock(t) \/ Acquire(t) \/ ReadLast(t) \/ Decide(t)

\* All calls have returned and their clock readings lie within one
\* debounce window.
BurstOver ==
    /\ \A t \in DebounceThreads : dt[t].pc = "done"
    /\ \A t, u \in DebounceThreads : dt[t].now - dt[u].now < DEBOUNCE_SECONDS

\* C18: for any interleaving of _is_debounced calls by several threads for
\* the same path within one 2-second window exactly one call returns
\* accept and all others suppress, and every read and write of the cache
\* happens while the thread holds the lock.
C18_ExactlyOneAccept ==
    /\ BurstOver => Cardinality({t \in DebounceThreads : dt[t].result = "accept"}) = 1
    /\ \A t \in DebounceThreads : dt[t].pc \in {"locked", "read"} => lock = t

-----------------------------------------------------------------------------
\* ---- the debounce cache over a minute (file_watcher.py) ----
\* _is_debounced called by one thread for several paths, the calls up to
\* a little more than the pruning horizon apart.

\* Paths the calls are for.
CachePaths == {FileA, FileX}

\* Seconds between one call and the next.
CacheSteps == ClockSteps \cup {PRUNE_SECONDS}

\* _is_debounced(f), d seconds after the previous call.
DebounceCall(f, d) ==
    LET now == clock + d
        deb == is_debounced(debounce_cache, f, now)
    IN /\ clock # NoEntry
       /\ nnotes < MaxNotes
       /\ clock' = now
       /\ nnotes' = nnotes + 1
       /\ debounce_cache' = deb.cache
       /\ call' = [fn |-> "_is_debounced", args |-> <<f, now>>,
                   result |-> IF deb.result THEN "suppress" ELSE "accept"]
       /\ UNCHANGED notCache

NextCache ==
    \/ \E c \in StartClocks : StartWatching(FALSE, c)
    \/ \E f \in CachePaths, d \in CacheSteps : DebounceCall(f, d)

\* C19: after every call of _is_debounced, accepting or suppressing, the
\* cache holds no entry recorded more than 60 seconds before the time of
\* that call.
C19_PrunedOnEveryCheck ==
    call.fn = "_is_debounced"
        => \A k \in DOMAIN debounce_cache :
              debounce_cache[k] # NoEntry
                  => debounce_cache[k] >= call.args[2] - PRUNE_SECONDS

\* C36: _is_debounced accepts a call for a path that has no entry in the
\* debounce cache, whatever the value of the monotonic clock (also below
\* 2 seconds).
C36_NoEntryAccepted ==
    [][\A f \in CachePaths :
          (/\ nnotes' # nnotes
           /\ call'.fn = "_is_debounced" /\ call'.args[1] = f
           /\ debounce_cache[f] = NoEntry)
              => call'.result = "accept"]_vars

-----------------------------------------------------------------------------
\* ---- the debounce cache beside a cache that is never pruned ----
\* Every call of _is_debounced is also put to a filter with the same rule
\* whose entries stay for ever; lastAccept is that filter's cache and
\* notes lists, per call, the two decisions and the two entries read.

\* Calls in one sequence.
MaxPruneCalls == 4

\* _is_debounced without the three pruning lines.
is_debounced_unpruned(cache, path, now) ==
    IF Debounced(cache_get(cache, path), now)
    THEN [result |-> TRUE, cache |-> cache]
    ELSE [result |-> FALSE, cache |-> [cache EXCEPT ![path] = now]]

\* _is_debounced(f), d >= 0 seconds after the previous call, and the same
\* call put to the unpruned filter.
DebounceBoth(f, d) ==
    LET now == clock + d
        deb == is_debounced(debounce_cache, f, now)
        ref == is_debounced_unpruned(lastAccept, f, now)
    IN /\ clock # NoEntry
       /\ nnotes < MaxPruneCalls
       /\ clock' = now
       /\ nnotes' = nnotes + 1
       /\ debounce_cache' = deb.cache
       /\ lastAccept' = ref.cache
       /\ notes' = Append(notes, [path |-> f, now |-> now,
                                  entry |-> debounce_cache[f],
                                  kept |-> lastAccept[f],
                                  result |-> deb.result,
                                  unpruned |-> ref.result])
       /\ UNCHANGED <<dry_run, activity_log, file_events, lastSeen, projVars, brVars,
                      dmVars, coVars, call, dbVars, envVars, raceVars>>

NextPrune ==
    \/ \E c \in StartClocks : StartWatching(FALSE, c)
    \/ \E f \in CachePaths, d \in CacheSteps : DebounceBoth(f, d)

\* C40: pruning of the debounce cache is transparent: in every sequence of
\* _is_debounced calls with non-decreasing clock values each call gets the
\* decision the never-pruned filter with the same 2-second rule gives it;
\* the two caches differ only in entries older than 60 seconds.
C40_PruningTransparent ==
    /\ \A i \in 1..Len(notes) : notes[i].result = notes[i].unpruned
    /\ \A f \in CachePaths :
          \/ debounce_cache[f] = lastAccept[f]
          \/ /\ debounce_cache[f] = NoEntry
             /\ lastAccept[f] < clock - PRUNE_SECONDS

\* A call for a path whose entry had been pruned (the unpruned filter
\* still held it), accepted by both, after a call that both suppressed.
C40_Witness ==
    \E i, j \in 1..Len(notes) :
        /\ i < j
        /\ notes[i].result /\ notes[i].unpruned
        /\ notes[j].entry = NoEntry /\ notes[j].kept # NoEntry
        /\ ~notes[j].result /\ ~notes[j].unpruned

-----------------------------------------------------------------------------
\* ---- a sequence of window polls (window_poller.py) ----

\* window_focus rows a sequence of polls may write.
MaxPollRows == 3

\* skip in app_lower or skip in title_lower
NON_WORK_APPS ==
    {"explorer", "task manager", "taskmgr", "clock", "calculator", "snipping tool",
     "magnifier", "narrator", "on-screen keyboard", "action center", "start", "search",
     "cortana", "settings", "control panel", "windows security", "system tray",
     "notification", "lockapp", "screensaver", "logonui"}

\* str.lower() on the letters of the window names used here.
RECURSIVE LowerStr(_)
LowerStr(str) ==
    LET c == Head(str)
        lc == CASE c = "A" -> "a" [] c = "B" -> "b" [] c = "C" -> "c" [] c = "D" -> "d"
                [] c = "E" -> "e" [] c = "F" -> "f" [] c = "G" -> "g" [] c = "H" -> "h"
                [] c = "I" -> "i" [] c = "J" -> "j" [] c = "K" -> "k" [] c = "L" -> "l"
                [] c = "M" -> "m" [] c = "N" -> "n" [] c = "O" -> "o" [] c = "P" -> "p"
                [] c = "Q" -> "q" [] c = "R" -> "r" [] c = "S" -> "s" [] c = "T" -> "t"
                [] c = "U" -> "u" [] c = "V" -> "v" [] c = "W" -> "w" [] c = "X" -> "x"
                [] c = "Y" -> "y" [] c = "Z" -> "z" [] OTHER -> c
    IN IF str = "" THEN "" ELSE lc \o LowerStr(Tail(str))

\* sub in str
Contains(str, sub) ==
    \E i \in 1..(Len(str) + 1) : \E j \in (i - 1)..Len(str) : SubSeq(str, i, j) = sub

\* What pwc.getActiveWindow() shows: no window, the editor, a terminal,
\* the calculator.  `project` is what _parse_vscode_project makes of the
\* title when the app name holds "code".
RawWindows ==
    Windows \cup { NoWindow,
                   [app |-> "Terminal", title |-> "bash", project |-> ""],
                   [app |-> "Calculator", title |-> "Calculator", project |-> ""] }

\* get_active_window_info(): None (NoWindow) when there is no window, when
\* title and app are both empty, when a non-work name occurs in the app
\* name or the title, or when the title is blank.
get_active_window_info(raw) ==
    IF raw = NoWindow \/ raw.title = ""
       \/ \E skip \in NON_WORK_APPS :
             Contains(LowerStr(raw.app), skip) \/ Contains(LowerStr(raw.title), skip)
    THEN NoWindow
    ELSE raw

\* get_active_window_info() for each of the windows.
ActiveInfo == [raw \in RawWindows |-> get_active_window_info(raw)]

\* The loop's next poll_once, with window raw in the foreground.
Poll(raw, dry, dbOk) ==
    /\ PollBody(ActiveInfo[raw], dry, TRUE, dbOk)
    /\ Len(alog') <= MaxPollRows
    /\ call' = [fn |-> "poll_once", args |-> <<raw, dry, dbOk>>,
                result |-> IF Len(alog') > Len(alog) THEN "row" ELSE "no row"]
    /\ UNCHANGED <<projRest, brVars, fwVars, file_events, dmVars, hooks, exit_code, dbVars, envVars, raceVars>>

NextPoller == \E raw \in RawWindows, dry, dbOk \in BOOLEAN : Poll(raw, dry, dbOk)

\* app + "||" + title
WindowKey(raw) == <<raw.app, raw.title>>

\* C26: in a sequence of polls, a poll whose (app, title) key equals that
\* of the poll before it writes no row, and a poll (not dry-run, the Store
\* working) whose window passes the non-work and empty filters and whose
\* key differs from the window seen at the poll before it writes exactly
\* one window_focus row.
C26_RowPerWindowChange ==
    [][(call.fn = "poll_once" /\ call'.fn = "poll_once") =>
          LET prev == call.args[1]
              cur == call'.args[1]
          IN /\ WindowKey(cur) = WindowKey(prev) => alog' = alog
             /\ (/\ ~call'.args[2] /\ call'.args[3]
                 /\ prev # NoWindow
                 /\ ActiveInfo[cur] # NoWindow
                 /\ WindowKey(cur) # WindowKey(prev))
                    => /\ Len(alog') = Len(alog) + 1
                       /\ alog'[Len(alog')].event_type = "window_focus"
                       /\ alog'[Len(alog')].key = cur.title]_vars

-----------------------------------------------------------------------------
\* ---- the cycle of the coding-activity thread (watcher_daemon.py) ----

\* Rows the coding-activity thread may write.
MaxCycleRows == 3

\* One cycle of _loop in _start_vscode_thread: with wakapi.enabled set in
\* the configuration the cycle is vscode_wakapi.run (which returns after
\* its warning when is_wakapi_running is false: reachable = FALSE),
\* otherwise it is vscode_activity.run(hours=1); found: the log scan finds
\* a workspace reference of proj.
VscodeCycle(wakapi_enabled, reachable, dry, found, proj, secs, dbOk) ==
    /\ IF wakapi_enabled
       THEN proj # "" /\ WakapiBody(dry, reachable, proj, secs, TRUE, dbOk)
       ELSE VscodeActivityBody(dry, found, proj, TRUE, dbOk)
    /\ Len(alog') <= MaxCycleRows
    /\ call' = [fn |-> "vscode cycle",
                args |-> <<wakapi_enabled, reachable, dry, found, proj, dbOk>>,
                result |-> IF alog' # alog THEN "written" ELSE "nothing written"]
    /\ UNCHANGED <<projRest, brVars, fwVars, dmVars, last_window, hooks, exit_code,
                   dbVars, envVars, raceVars>>

NextVscode ==
    \E wakapi_enabled, reachable, dry, found, dbOk \in BOOLEAN,
       proj \in CodingProjects, secs \in TotalSeconds :
       VscodeCycle(wakapi_enabled, reachable, dry, found, proj, secs, dbOk)

\* C33: a cycle with the integration enabled whose service is unreachable
\* falls back to the log scan of vscode_activity: when the scan finds a
\* workspace (not in dry-run mode, the write succeeding), the Store holds
\* a vscode_activity row of the day after the cycle.
C33_UnreachableFallsBack ==
    (/\ call.fn = "vscode cycle"
     /\ call.args[1] /\ ~call.args[2] /\ ~call.args[3] /\ call.args[4] /\ call.args[6])
        => \E i \in 1..Len(alog) :
               alog[i].event_type = "vscode_activity" /\ alog[i].key = Today

-----------------------------------------------------------------------------
\* ---- the poll loop of start_polling (window_poller.py) ----

WindowPoller == "window poller"

\* What `import pywinctl` can do when window_poller is first imported:
\* succeed, raise ImportError (the library is not installed), or raise
\* something else (the library is installed but cannot initialise).
ImportOutcomes == {"available", "unavailable", "import raises"}

\* What _start_window_poller leaves in self._window_thread: the module
\* catches ImportError itself and sets PYWINCTL_AVAILABLE = False, and
\* start_polling starts the thread without looking at that flag; any
\* other exception of the import leaves the module import and is caught
\* by _start_window_poller, which starts nothing.
start_polling(lib) == IF lib = "import raises" THEN "none" ELSE "loop"

\* _start_window_poller(): the first import of window_poller (with
\* outcome lib of its `import pywinctl`) and start_polling: t.start(), the
\* thread enters _loop.
StartPolling(lib) ==
    /\ th[WindowPoller] = "none"
    /\ pywinctl = "not imported"
    /\ pywinctl' = lib
    /\ th' = [th EXCEPT ![WindowPoller] = start_polling(lib)]
    /\ warned' = IF th'[WindowPoller] = "none"
                 THEN warned \cup {StartWarning(WindowPoller)} ELSE warned
    /\ UNCHANGED <<dpc, dk, stop_event, observer, reports, fails, write_failed>>
    /\ UNCHANGED <<projVars, brVars, fwVars, coVars, call, dbVars, raceVars>>

\* poll_once(...) in the loop's try block returns, with window raw in the
\* foreground; the thread goes on to _stop.wait(interval).
LoopPoll(raw, dry, dbOk) ==
    /\ th[WindowPoller] = "cycle"
    /\ PollBody(IF pywinctl = "available" THEN ActiveInfo[raw] ELSE NoWindow,
                dry, TRUE, dbOk)
    /\ Len(alog') <= MaxPollRows
    /\ th' = [th EXCEPT ![WindowPoller] = "loop"]
    /\ fails' = [fails EXCEPT ![WindowPoller] = 0]
    /\ call' = [fn |-> "poll_once", args |-> <<raw, dry, dbOk>>,
                result |-> IF Len(alog') > Len(alog) THEN "row" ELSE "no row"]
    /\ UNCHANGED <<projRest, brVars, fwVars, file_events, hooks, exit_code, dbVars, envVars, raceVars>>
    /\ UNCHANGED <<dpc, dk, stop_event, observer, reports, warned, write_failed>>

NextPollLoop ==
    \/ \E lib \in ImportOutcomes : StartPolling(lib)
    \/ Stop
    \/ ThreadTest(WindowPoller)
    \/ \E raw \in RawWindows, dry, dbOk \in BOOLEAN : LoopPoll(raw, dry, dbOk)
    \/ CycleError(WindowPoller)

\* C27: with the stop flag set, a loop in its interval wait does not start
\* another poll but wakes and exits; a poll in progress when the flag is
\* set is not cut short (the thread leaves it only by its return or its
\* error), and once the thread has seen the flag and left the loop it
\* polls no more.
C27_StopBetweenPolls ==
    /\ [][/\ (stop_event /\ th[WindowPoller] = "loop")
                 => th'[WindowPoller] \in {"loop", "exited"}
          /\ th[WindowPoller] = "cycle" => th'[WindowPoller] \in {"cycle", "loop"}
          /\ th[WindowPoller] = "exited" => (th'[WindowPoller] = "exited" /\ alog' = alog)
         ]_vars
    /\ (stop_event /\ th[WindowPoller] = "loop") ~> (th[WindowPoller] = "exited")

\* C32: when the window library is unavailable (its import fails), the
\* window collector is skipped at startup: no poll loop thread is started
\* or runs.
C32_NoLibraryNoLoop ==
    pywinctl \in {"unavailable", "import raises"} => th[WindowPoller] = "none"

\* The flag was set during a poll that then wrote its row; the thread has
\* left the loop and printed its line once.
C27_Witness ==
    /\ stop_event
    /\ th[WindowPoller] = "exited"
    /\ reports[WindowPoller] = 1
    /\ call.fn = "poll_once" /\ call.result = "row"
    /\ Len(alog) = MaxPollRows

-----------------------------------------------------------------------------
\* ---- the commit collector run again on an unchanged HEAD (git_commit.py) ----

\* Runs of the commit collector that may reach the Store.
MaxCommitRows == 2

\* One more run of the post-commit hook's command on the same repository
\* state: HEAD, and so the commit and its changed files, are what the
\* earlier runs saw.
GitCommitRerun(repo, dry, resolveOk, gitOk, gocOk, db) ==
    LET recorded == resolveOk /\ repo \in GitRepos /\ gitOk
    IN /\ GitCommitBody(repo, dry, resolveOk, gitOk,
                        IF recorded THEN <<"a.py", "b.py">> ELSE <<>>, gocOk, db)
       /\ Len(alog') <= MaxCommitRows
       /\ call' = [fn |-> "git_commit",
                   args |-> <<repo, dry, resolveOk, gitOk, gocOk, db>>,
                   result |-> IF alog' # alog THEN "recorded" ELSE "nothing recorded"]
       /\ UNCHANGED <<last_window, hooks, projRest, brVars, clock, debounce_cache,
                      dry_run, activity_log, nnotes, lastSeen, lastAccept, notes,
                      dmVars, dbVars, envVars, raceVars>>

NextCommit ==
    \E repo \in RepoArgs, dry, resolveOk, gitOk, gocOk \in BOOLEAN,
       db \in {"ok", "missing", "error"} :
        GitCommitRerun(repo, dry, resolveOk, gitOk, gocOk, db)

\* C39: re-invoking the commit collector for the same HEAD commit is an
\* idempotent re-insertion: after any number of runs on an unchanged HEAD
\* the Store holds at most one git_commit row for that commit hash and
\* at most one file_events row per changed file (exactly one once a run
\* has recorded the commit).
C39_RerunIdempotent ==
    /\ Cardinality({i \in 1..Len(alog) :
            alog[i].event_type = "git_commit" /\ alog[i].key = "c1"}) <= 1
    /\ \A repo \in RepoArgs, f \in {"a.py", "b.py"} :
          Cardinality({j \in 1..Len(file_events) :
              file_events[j].path = Append(repo, f)}) <= 1

-----------------------------------------------------------------------------
\* ---- two browser sync runs against one Store (browser_history.py) ----
\* The daemon's browser thread and a CLI run, each in its own process or
\* thread with its own connection, call sync_to_db with the same entries.

\* Runs of sync_to_db under way at the same time.
NumRuns == 2
SyncRuns == 1..NumRuns

\* The history entries every run is handed, newest first.
RaceEntries == <<[ts |-> 2, url |-> "u1"], [ts |-> 1, url |-> "u2"]>>

NotSyncing == [pc |-> "idle", k |-> 1, staged |-> {}]

RaceInit ==
    /\ sync = [r \in SyncRuns |-> NotSyncing]
    /\ sync_writer = 0

\* The position of a run after the entry at index k.
AfterEntry(k) ==
    IF k < Len(RaceEntries) THEN [pc |-> "select", k |-> k + 1]
    ELSE [pc |-> "commit", k |-> k]

\* sqlite3.connect(db_path, timeout=10) and the PRAGMAs; the for-loop
\* begins.
RaceConnect(r) ==
    /\ sync[r].pc = "idle"
    /\ sync' = [sync EXCEPT ![r].pc = "select"]
    /\ UNCHANGED <<sync_writer, blog, notRace>>

\* "Check for duplicate": the SELECT sees the committed rows and the rows
\* this run has inserted in its open transaction; a row found: continue.
RaceSelect(r) ==
    LET e == RaceEntries[sync[r].k]
        existing == ExistsRow(blog, e) \/ e \in sync[r].staged
        next == AfterEntry(sync[r].k)
    IN /\ sync[r].pc = "select"
       /\ sync' = IF existing
                  THEN [sync EXCEPT ![r].pc = next.pc, ![r].k = next.k]
                  ELSE [sync EXCEPT ![r].pc = "insert"]
       /\ UNCHANGED <<sync_writer, blog, notRace>>

\* The INSERT: the first one of a run opens its transaction and takes the
\* write lock, which no other run may hold.
RaceInsert(r) ==
    LET e == RaceEntries[sync[r].k]
        next == AfterEntry(sync[r].k)
    IN /\ sync[r].pc = "insert"
       /\ sync_writer \in {0, r}
       /\ sync_writer' = r
       /\ sync' = [sync EXCEPT ![r].pc = next.pc, ![r].k = next.k,
                               ![r].staged = @ \cup {e}]
       /\ UNCHANGED <<blog, notRace>>

\* The INSERT waits 10 s for another run's write lock and raises
\* sqlite3.OperationalError (database is locked): the error is printed
\* and sync_to_db returns.
RaceLocked(r) ==
    /\ sync[r].pc = "insert"
    /\ sync_writer \notin {0, r}
    /\ sync' = [sync EXCEPT ![r].pc = "done"]
    /\ UNCHANGED <<sync_writer, blog, notRace>>

\* conn.commit(): the rows of the transaction become visible to the other
\* runs and the write lock is released.
RaceCommit(r) ==
    /\ sync[r].pc = "commit"
    /\ blog' = blog (+) SetToBag(sync[r].staged)
    /\ sync_writer' = IF sync_writer = r THEN 0 ELSE sync_writer
    /\ sync' = [sync EXCEPT ![r].pc = "done", ![r].staged = {}]
    /\ UNCHANGED notRace

\* The next cycle of the run.
RaceAgain(r) ==
    /\ sync[r].pc = "done"
    /\ sync' = [sync EXCEPT ![r] = NotSyncing]
    /\ UNCHANGED <<sync_writer, blog, notRace>>

NextRace ==
    \/ \E r \in SyncRuns : RaceConnect(r)
    \/ \E r \in SyncRuns : RaceSelect(r)
    \/ \E r \in SyncRuns : RaceInsert(r)
    \/ \E r \in SyncRuns : RaceLocked(r)
    \/ \E r \in SyncRuns : RaceCommit(r)
    \/ \E r \in SyncRuns : RaceAgain(r)

\* C38: for any interleaving of two browser sync runs over the same
\* history entries against one Store, activity_log holds at most one
\* browser row per (timestamp, url) pair.
C38_ConcurrentRunsNoDuplicate ==
    \A i \in 1..Len(RaceEntries) : CopiesIn(RaceEntries[i], blog) <= 1

-----------------------------------------------------------------------------
Init == ProjInit /\ BrowserInit /\ WatcherInit /\ DaemonInit /\ CollectorsInit
        /\ call = NoCall /\ DebounceInit /\ pywinctl = "not imported" /\ RaceInit

SpecProj == Init /\ [][NextProj]_vars

SpecBrowser == Init /\ [][NextBrowser]_vars

SpecWatcher == Init /\ [][NextWatcher]_vars

SpecDaemon == Init /\ [][NextDaemon]_vars

SpecCollectors == Init /\ [][NextCollectors]_vars

SpecMapper == Init /\ [][NextMapper]_vars

SpecExclude == Init /\ [][NextExclude]_vars

SpecEpoch == Init /\ [][NextEpoch]_vars

SpecDebounce == Init /\ [][NextDebounce]_vars

SpecCache == Init /\ [][NextCache]_vars

SpecPoller == Init /\ [][NextPoller]_vars

SpecVscode == Init /\ [][NextVscode]_vars

SpecRace == Init /\ [][NextRace]_vars
SpecCommit == Init /\ [][NextCommit]_vars
SpecPrune == Init /\ [][NextPrune]_vars

\* The thread is scheduled: Event.wait returns when the flag is set or
\* the interval is over, and the loop test follows.
SpecPollLoop == Init /\ [][NextPollLoop]_vars /\ WF_vars(ThreadTest(WindowPoller))

====
